---- MODULE Spec2Model ----
(***************************************************************************)
(* marsa11y: a line-by-line HTML accessibility checker (VS Code extension) *)
(* with an assisted repair workflow that inserts generated alt text.       *)
(*                                                                         *)
(* Text is modelled by TLA+ strings, exactly as the code sees it: a        *)
(* document is one string, split on "\n" into lines; every detector is an  *)
(* operator over the line string.  A detector's result is a sequence:      *)
(* <<>> stands for null, <<issue>> for an issue.                           *)
(***************************************************************************)
EXTENDS Integers, Sequences, FiniteSets, TLC

(***************************************************************************)
(* String primitives of the JavaScript runtime used by the code.           *)
(***************************************************************************)
Min(S) == CHOOSE m \in S : \A n \in S : m <= n

Max(S) == CHOOSE m \in S : \A n \in S : m >= n

\* s.charAt(i), i zero-based
charAt(s, i) == SubSeq(s, i + 1, i + 1)

\* s.includes(p)
includes(s, p) == \E i \in 0..(Len(s) - Len(p)) : SubSeq(s, i + 1, i + Len(p)) = p

\* s.indexOf(p, from): zero-based index of the first occurrence at or after from, -1 if none
indexOf(s, p, from) ==
  LET f == IF from < 0 THEN 0 ELSE from
      hits == {i \in f..(Len(s) - Len(p)) : SubSeq(s, i + 1, i + Len(p)) = p}
  IN IF hits = {} THEN -1 ELSE Min(hits)

\* s.substring(a, b), zero-based, b exclusive
substring(s, a, b) == SubSeq(s, a + 1, b)

\* s.endsWith(p)
endsWith(s, p) == Len(p) <= Len(s) /\ SubSeq(s, Len(s) - Len(p) + 1, Len(s)) = p

\* white space as String.prototype.trim and the regex class \s see it
isSpace(c) == c \in {" ", "\t", "\n", "\r", "\f"}

\* s.trimStart()
RECURSIVE trimStart(_)
trimStart(s) ==
  IF s # "" /\ isSpace(SubSeq(s, 1, 1)) THEN trimStart(SubSeq(s, 2, Len(s))) ELSE s

\* s.trimEnd()
RECURSIVE trimEnd(_)
trimEnd(s) ==
  IF s # "" /\ isSpace(SubSeq(s, Len(s), Len(s))) THEN trimEnd(SubSeq(s, 1, Len(s) - 1)) ELSE s

\* s.trim()
trim(s) == trimEnd(trimStart(s))

\* text.split('\n')
RECURSIVE split(_)
split(text) ==
  LET i == indexOf(text, "\n", 0)
  IN IF i = -1 THEN <<text>>
     ELSE <<substring(text, 0, i)>> \o split(substring(text, i + 1, Len(text)))

\* one character of s.toLowerCase()
lowerChar(c) ==
  CASE c = "A" -> "a" [] c = "B" -> "b" [] c = "C" -> "c" [] c = "D" -> "d"
    [] c = "E" -> "e" [] c = "F" -> "f" [] c = "G" -> "g" [] c = "H" -> "h"
    [] c = "I" -> "i" [] c = "J" -> "j" [] c = "K" -> "k" [] c = "L" -> "l"
    [] c = "M" -> "m" [] c = "N" -> "n" [] c = "O" -> "o" [] c = "P" -> "p"
    [] c = "Q" -> "q" [] c = "R" -> "r" [] c = "S" -> "s" [] c = "T" -> "t"
    [] c = "U" -> "u" [] c = "V" -> "v" [] c = "W" -> "w" [] c = "X" -> "x"
    [] c = "Y" -> "y" [] c = "Z" -> "z" [] OTHER -> c

\* s.toLowerCase()
RECURSIVE toLowerCase(_)
toLowerCase(s) ==
  IF s = "" THEN "" ELSE lowerChar(SubSeq(s, 1, 1)) \o toLowerCase(SubSeq(s, 2, Len(s)))

\* the result of a regex match that failed (String.prototype.match returning null)
NoMatch == <<>>

\* zero-based index of the first character at or after from that is in the set cs, -1 if none
firstOf(s, cs, from) ==
  LET hits == {i \in from..(Len(s) - 1) : charAt(s, i) \in cs}
  IN IF hits = {} THEN -1 ELSE Min(hits)

Quotes == {"\"", "'"}

Digits == {"0", "1", "2", "3", "4", "5", "6", "7", "8", "9"}

\* the line terminators the regex dot does not match
LineTerminators == {"\n", "\r"}

\* no character of s is a line terminator: s is matched by .*
dotStar(s) == \A i \in 1..Len(s) : SubSeq(s, i, i) \notin LineTerminators

(***************************************************************************)
(* Issues, ranges and diagnostics.                                         *)
(***************************************************************************)
\* new vscode.Range(startLine, startCharacter, endLine, endCharacter)
Range(sl, sc, el, ec) == [startLine |-> sl, startCharacter |-> sc, endLine |-> el, endCharacter |-> ec]

\* the AccessibilityIssue literal every detector returns; family and check
\* record which family runner and which position of its checks list emitted
\* the issue (filled in by the runner)
Issue(line, lineNumber, text, sev) ==
  <<[line |-> lineNumber + 1, issue |-> text, severity |-> sev,
     range |-> Range(lineNumber, 0, lineNumber, Len(line)),
     family |-> 0, check |-> 0]>>

null == <<>>

\* checks.forEach(check => { if (check) issues.push(check); }) of a family runner
RECURSIVE runChecks(_, _, _)
runChecks(fam, checks, k) ==
  IF k > Len(checks) THEN <<>>
  ELSE [i \in 1..Len(checks[k]) |-> [checks[k][i] EXCEPT !.family = fam, !.check = k]]
       \o runChecks(fam, checks, k + 1)

\* positions of the family runners in the aggregator's allIssues list
FamImage == 1

FamForm == 2

FamOther == 3

FamAria == 4

FamTabIndex == 5

FamSemantic == 6

(***************************************************************************)
(* ImageChecker                                                            *)
(***************************************************************************)
\* a missing-alt detector that knows the image only by a double-quoted src
checkImageAltAttributes_doubleQuotedSrc(line, lineNumber) ==
  LET trimmedLine == trim(line)
  IN IF includes(trimmedLine, "<img src=\"") /\ ~includes(trimmedLine, "alt=")
     THEN Issue(line, lineNumber, "Missing alt attribute on image....", "HIGH")
     ELSE null

checkImageAltAttributes(line, lineNumber) ==
  LET trimmedLine == trim(line)
  IN IF includes(trimmedLine, "<img") /\ ~includes(trimmedLine, "alt=")
     THEN Issue(line, lineNumber, "Missing alt attribute on image....", "HIGH")
     ELSE null

\* an empty-alt detector that knows the double-quoted form only
checkEmptyAltAttributes_doubleQuotesOnly(line, lineNumber) ==
  LET trimmedLine == trim(line)
  IN IF includes(trimmedLine, "alt=\"\"")
     THEN Issue(line, lineNumber, "Empty alt attribute - consider if image is decorative or needs description", "MEDIUM")
     ELSE null

checkEmptyAltAttributes(line, lineNumber) ==
  LET trimmedLine == trim(line)
  IN IF includes(trimmedLine, "alt=\"\"") \/ includes(trimmedLine, "alt=''")
     THEN Issue(line, lineNumber, "Empty alt attribute - consider if image is decorative or needs description", "MEDIUM")
     ELSE null

checkImages(line, lineNumber) ==
  runChecks(FamImage, <<checkImageAltAttributes(line, lineNumber),
                        checkEmptyAltAttributes(line, lineNumber)>>, 1)

(***************************************************************************)
(* FormElementsChecker                                                     *)
(***************************************************************************)
checkFormInputLabels(line, lineNumber) ==
  LET trimmedLine == trim(line)
  IN IF (includes(trimmedLine, "<input") \/ includes(trimmedLine, "<textarea") \/ includes(trimmedLine, "<select"))
        /\ ~includes(trimmedLine, "aria-label") /\ ~includes(trimmedLine, "aria-labelledby")
        /\ ~includes(trimmedLine, "id=") /\ ~includes(trimmedLine, "placeholder=")
     THEN Issue(line, lineNumber, "Form input missing label, aria-label, or aria-labelledby", "HIGH")
     ELSE null

checkFormLabels(line, lineNumber) ==
  LET trimmedLine == trim(line)
  IN IF includes(trimmedLine, "<label") /\ ~includes(trimmedLine, "for=")
     THEN Issue(line, lineNumber, "Label element missing for attribute", "MEDIUM")
     ELSE null

checkFormElements(line, lineNumber) ==
  runChecks(FamForm, <<checkFormInputLabels(line, lineNumber),
                       checkFormLabels(line, lineNumber)>>, 1)

(***************************************************************************)
(* OtherAccessibilityChecker                                               *)
(***************************************************************************)
\* a heading-structure detector that reports an h1 line of a document that
\* has an h1
checkHeadingStructure_whenPresent(line, lineNumber, fullText) ==
  LET trimmedLine == trim(line)
  IN IF includes(trimmedLine, "<h1>") /\ includes(fullText, "<h1>")
     THEN Issue(line, lineNumber, "Multiple h1 tags found - page should have only one h1", "MEDIUM")
     ELSE null

checkHeadingStructure(line, lineNumber, fullText) ==
  LET trimmedLine == trim(line)
  IN IF (includes(trimmedLine, "<h1>") \/ includes(trimmedLine, "<h2>") \/ includes(trimmedLine, "<h3>")
         \/ includes(trimmedLine, "<h4>") \/ includes(trimmedLine, "<h5>") \/ includes(trimmedLine, "<h6>"))
        /\ includes(trimmedLine, "<h1>") /\ ~includes(fullText, "<h1>")
     THEN Issue(line, lineNumber, "Multiple h1 tags found - page should have only one h1", "MEDIUM")
     ELSE null

Other_checkHtmlLangAttribute(line, lineNumber) ==
  LET trimmedLine == trim(line)
  IN IF includes(trimmedLine, "<html") /\ ~includes(trimmedLine, "lang=")
     THEN Issue(line, lineNumber, "Missing lang attribute on html tag", "HIGH")
     ELSE null

Other_checkKeyboardAccessibility(line, lineNumber) ==
  LET trimmedLine == trim(line)
  IN IF (includes(trimmedLine, "<div") \/ includes(trimmedLine, "<span"))
        /\ includes(trimmedLine, "onclick") /\ ~includes(trimmedLine, "tabindex") /\ ~includes(trimmedLine, "role=")
     THEN Issue(line, lineNumber, "Clickable div/span without keyboard accessibility - add tabindex and role", "HIGH")
     ELSE null

Other_checkColorOnlyInformation(line, lineNumber) ==
  LET trimmedLine == trim(line)
  IN IF includes(trimmedLine, "color:") \/ includes(trimmedLine, "background-color:")
     THEN Issue(line, lineNumber, "Color styling detected - ensure information is not conveyed by color alone", "LOW")
     ELSE null

checkFocusIndicators(line, lineNumber) ==
  LET trimmedLine == trim(line)
  IN IF includes(trimmedLine, ":focus") /\ includes(trimmedLine, "outline: none")
     THEN Issue(line, lineNumber, "Focus outline removed without alternative focus indicator", "HIGH")
     ELSE null

checkOtherAccessibility(line, lineNumber, fullText) ==
  runChecks(FamOther, <<checkHeadingStructure(line, lineNumber, fullText),
                        Other_checkHtmlLangAttribute(line, lineNumber),
                        Other_checkKeyboardAccessibility(line, lineNumber),
                        Other_checkColorOnlyInformation(line, lineNumber),
                        checkFocusIndicators(line, lineNumber)>>, 1)

(***************************************************************************)
(* Regular expressions of the detectors, as leftmost backtracking matches. *)
(***************************************************************************)
\* start indices at which  prefix["']([^"']+)["']  matches
quotedHits(s, prefix) ==
  {i \in 0..(Len(s) - Len(prefix)) :
     /\ SubSeq(s, i + 1, i + Len(prefix)) = prefix
     /\ charAt(s, i + Len(prefix)) \in Quotes
     /\ firstOf(s, Quotes, i + Len(prefix) + 1) > i + Len(prefix) + 1}

\* the group ([^"']+) of the match that starts at i
quotedValue(s, prefix, i) ==
  substring(s, i + Len(prefix) + 1, firstOf(s, Quotes, i + Len(prefix) + 1))

\* s.match(/prefix["'](V)["']/) where V is a class of quote-free values told by ok:
\* <<group 1>> of the leftmost match, or NoMatch
matchQuoted(s, prefix, ok(_)) ==
  LET hits == {i \in quotedHits(s, prefix) : ok(quotedValue(s, prefix, i))}
  IN IF hits = {} THEN NoMatch ELSE <<quotedValue(s, prefix, Min(hits))>>

\* [^"']+
anyValue(v) == TRUE

\* -[0-9]+
negativeValue(v) ==
  Len(v) >= 2 /\ charAt(v, 0) = "-" /\ \A k \in 1..(Len(v) - 1) : charAt(v, k) \in Digits

\* [1-9][0-9]*
positiveValue(v) ==
  Len(v) >= 1 /\ charAt(v, 0) \in (Digits \ {"0"}) /\ \A k \in 1..(Len(v) - 1) : charAt(v, k) \in Digits

\* start indices at which  open[^>]*>(.*?)close  matches
elementHits(s, open, close) ==
  {i \in 0..(Len(s) - Len(open)) :
     /\ SubSeq(s, i + 1, i + Len(open)) = open
     /\ LET gt == indexOf(s, ">", i + Len(open))
        IN /\ gt # -1
           /\ indexOf(s, close, gt + 1) # -1
           /\ dotStar(substring(s, gt + 1, indexOf(s, close, gt + 1)))}

\* s.match(/open[^>]*>(.*?)close/): <<group 1>> of the leftmost match, or NoMatch
matchElement(s, open, close) ==
  LET hits == elementHits(s, open, close)
  IN IF hits = {} THEN NoMatch
     ELSE LET gt == indexOf(s, ">", Min(hits) + Len(open))
          IN <<substring(s, gt + 1, indexOf(s, close, gt + 1))>>

\* s.match(/>([^<]+)</): <<group 1>> of the leftmost match, or NoMatch
matchTextContent(s) ==
  LET hits == {i \in 0..(Len(s) - 1) : charAt(s, i) = ">" /\ firstOf(s, {"<"}, i + 1) > i + 1}
  IN IF hits = {} THEN NoMatch
     ELSE <<substring(s, Min(hits) + 1, firstOf(s, {"<"}, Min(hits) + 1))>>

\* s.match(/<h([1-6])[^>]*>/): <<group 1>> of the leftmost match, or NoMatch
matchHeading(s) ==
  LET hits == {i \in 0..(Len(s) - 3) :
                 /\ SubSeq(s, i + 1, i + 2) = "<h"
                 /\ charAt(s, i + 2) \in {"1", "2", "3", "4", "5", "6"}
                 /\ indexOf(s, ">", i + 3) # -1}
  IN IF hits = {} THEN NoMatch ELSE <<charAt(s, Min(hits) + 2)>>

\* parseInt of one decimal digit
parseInt(d) ==
  CASE d = "0" -> 0 [] d = "1" -> 1 [] d = "2" -> 2 [] d = "3" -> 3 [] d = "4" -> 4
    [] d = "5" -> 5 [] d = "6" -> 6 [] d = "7" -> 7 [] d = "8" -> 8 [] d = "9" -> 9

\* (s.match(/<h1[^>]*>/g) || []).length, scanning from index from
RECURSIVE countH1(_, _)
countH1(s, from) ==
  LET i == indexOf(s, "<h1", from)
  IN IF i = -1 THEN 0
     ELSE LET gt == indexOf(s, ">", i + 3)
          IN IF gt = -1 THEN 0 ELSE 1 + countH1(s, gt + 1)

\* /^\s*$/.test(s)
onlyWhitespace(s) == \A i \in 1..Len(s) : isSpace(SubSeq(s, i, i))

(***************************************************************************)
(* AriaLabelRoleChecker                                                    *)
(***************************************************************************)
VALID_ROLES ==
  {"alert", "alertdialog", "application", "article", "banner", "button", "cell", "checkbox",
   "columnheader", "combobox", "complementary", "contentinfo", "definition", "dialog", "directory",
   "document", "feed", "figure", "form", "grid", "gridcell", "group", "heading", "img", "link",
   "list", "listbox", "listitem", "log", "main", "marquee", "math", "menu", "menubar", "menuitem",
   "menuitemcheckbox", "menuitemradio", "navigation", "none", "note", "option", "presentation",
   "progressbar", "radio", "radiogroup", "region", "row", "rowgroup", "rowheader", "scrollbar",
   "search", "separator", "slider", "spinbutton", "status", "switch", "tab", "table", "tablist",
   "tabpanel", "textbox", "timer", "toolbar", "tooltip", "tree", "treegrid", "treeitem"}

INTERACTIVE_ELEMENTS == {"button", "input", "select", "textarea", "a", "area", "summary"}

checkMissingAriaLabel(line, lineNumber) ==
  LET trimmedLine == trim(line)
      hasInteractiveElement ==
        \E element \in INTERACTIVE_ELEMENTS :
          includes(trimmedLine, "<" \o element) \/ includes(trimmedLine, "<" \o element \o " ")
      hasAriaLabel == includes(trimmedLine, "aria-label") \/ includes(trimmedLine, "aria-labelledby")
      hasTitle == includes(trimmedLine, "title=")
      hasAlt == includes(trimmedLine, "alt=")
      buttonMatch == matchElement(trimmedLine, "<button", "</button>")
      linkMatch == matchElement(trimmedLine, "<a", "</a>")
      hasVisibleText ==
        \/ includes(trimmedLine, "<button") /\ buttonMatch # NoMatch /\ Len(trim(buttonMatch[1])) > 0
        \/ includes(trimmedLine, "<a") /\ linkMatch # NoMatch /\ Len(trim(linkMatch[1])) > 0
      hasAccessibleName == hasAriaLabel \/ hasTitle \/ hasAlt \/ hasVisibleText
  IN IF hasInteractiveElement /\ ~hasAccessibleName
     THEN Issue(line, lineNumber, "Interactive element missing accessible name (aria-label, aria-labelledby, or visible text)", "HIGH")
     ELSE null

checkEmptyAriaLabel(line, lineNumber) ==
  LET trimmedLine == trim(line)
  IN IF includes(trimmedLine, "aria-label=\"\"") \/ includes(trimmedLine, "aria-label=''")
        \/ includes(trimmedLine, "aria-label=\" \"") \/ includes(trimmedLine, "aria-label=' '")
     THEN Issue(line, lineNumber, "Empty or whitespace-only aria-label provides no accessible name", "HIGH")
     ELSE null

checkRedundantAriaLabel(line, lineNumber) ==
  LET trimmedLine == trim(line)
      textMatch == matchTextContent(trimmedLine)
  IN IF (includes(trimmedLine, "<button") \/ includes(trimmedLine, "<a"))
        /\ includes(trimmedLine, "aria-label") /\ includes(trimmedLine, ">") /\ includes(trimmedLine, "</")
        /\ textMatch # NoMatch /\ Len(trim(textMatch[1])) > 0
     THEN Issue(line, lineNumber, "Redundant aria-label when visible text already provides accessible name", "MEDIUM")
     ELSE null

checkInvalidRole(line, lineNumber) ==
  LET trimmedLine == trim(line)
      roleMatch == matchQuoted(trimmedLine, "role=", anyValue)
  IN IF includes(trimmedLine, "role=") /\ roleMatch # NoMatch
        /\ toLowerCase(roleMatch[1]) \notin VALID_ROLES
     THEN Issue(line, lineNumber,
                "Invalid ARIA role \"" \o toLowerCase(roleMatch[1]) \o "\" - not a valid ARIA role", "HIGH")
     ELSE null

checkRedundantRole(line, lineNumber) ==
  LET trimmedLine == trim(line)
      roleMatch == matchQuoted(trimmedLine, "role=", anyValue)
      role == toLowerCase(roleMatch[1])
  IN IF includes(trimmedLine, "role=") /\ roleMatch # NoMatch
        /\ (\/ includes(trimmedLine, "<button") /\ role = "button"
            \/ includes(trimmedLine, "<nav") /\ role = "navigation"
            \/ includes(trimmedLine, "<main") /\ role = "main"
            \/ includes(trimmedLine, "<header") /\ role = "banner"
            \/ includes(trimmedLine, "<footer") /\ role = "contentinfo"
            \/ includes(trimmedLine, "<section") /\ role = "region"
            \/ includes(trimmedLine, "<article") /\ role = "article"
            \/ includes(trimmedLine, "<aside") /\ role = "complementary")
     THEN Issue(line, lineNumber,
                "Redundant role=\"" \o role \o "\" on semantic element - element already has implicit role", "LOW")
     ELSE null

checkMissingAriaLabelledbyReference(line, lineNumber, fullText) ==
  LET trimmedLine == trim(line)
      labelledbyMatch == matchQuoted(trimmedLine, "aria-labelledby=", anyValue)
      referencedId == labelledbyMatch[1]
  IN IF includes(trimmedLine, "aria-labelledby=") /\ labelledbyMatch # NoMatch
        /\ ~includes(fullText, "id=\"" \o referencedId \o "\"")
        /\ ~includes(fullText, "id='" \o referencedId \o "'")
     THEN Issue(line, lineNumber,
                "aria-labelledby references non-existent element with id=\"" \o referencedId \o "\"", "HIGH")
     ELSE null

checkMissingAriaDescribedbyReference(line, lineNumber, fullText) ==
  LET trimmedLine == trim(line)
      describedbyMatch == matchQuoted(trimmedLine, "aria-describedby=", anyValue)
      referencedId == describedbyMatch[1]
  IN IF includes(trimmedLine, "aria-describedby=") /\ describedbyMatch # NoMatch
        /\ ~includes(fullText, "id=\"" \o referencedId \o "\"")
        /\ ~includes(fullText, "id='" \o referencedId \o "'")
     THEN Issue(line, lineNumber,
                "aria-describedby references non-existent element with id=\"" \o referencedId \o "\"", "HIGH")
     ELSE null

checkMissingAriaExpanded(line, lineNumber) ==
  LET trimmedLine == trim(line)
  IN IF (includes(trimmedLine, "role=\"button\"") \/ includes(trimmedLine, "role=\"menuitem\""))
        /\ includes(trimmedLine, "onclick") /\ ~includes(trimmedLine, "aria-expanded")
     THEN Issue(line, lineNumber, "Collapsible element missing aria-expanded attribute", "MEDIUM")
     ELSE null

checkIncorrectAriaExpanded(line, lineNumber) ==
  LET trimmedLine == trim(line)
      expandedMatch == matchQuoted(trimmedLine, "aria-expanded=", anyValue)
      value == toLowerCase(expandedMatch[1])
  IN IF includes(trimmedLine, "aria-expanded=") /\ expandedMatch # NoMatch
        /\ value # "true" /\ value # "false"
     THEN Issue(line, lineNumber,
                "Invalid aria-expanded value \"" \o value \o "\" - must be \"true\" or \"false\"", "HIGH")
     ELSE null

checkMissingAriaHiddenOnDecorative(line, lineNumber) ==
  LET trimmedLine == trim(line)
  IN IF includes(trimmedLine, "<img")
        /\ (includes(trimmedLine, "decorative") \/ includes(trimmedLine, "ornament")
            \/ includes(trimmedLine, "spacer") \/ includes(trimmedLine, "divider"))
        /\ ~includes(trimmedLine, "aria-hidden=\"true\"")
     THEN Issue(line, lineNumber, "Decorative image should have aria-hidden=\"true\"", "MEDIUM")
     ELSE null

checkConflictingAriaHiddenAndRole(line, lineNumber) ==
  LET trimmedLine == trim(line)
  IN IF includes(trimmedLine, "aria-hidden=\"true\"") /\ includes(trimmedLine, "role=")
     THEN Issue(line, lineNumber, "Element with aria-hidden=\"true\" should not have a role attribute", "HIGH")
     ELSE null

checkMissingAriaDisabled(line, lineNumber) ==
  LET trimmedLine == trim(line)
  IN IF (includes(trimmedLine, "disabled") \/ includes(trimmedLine, "readonly"))
        /\ ~includes(trimmedLine, "aria-disabled")
        /\ (includes(trimmedLine, "<input") \/ includes(trimmedLine, "<button") \/ includes(trimmedLine, "<select"))
     THEN Issue(line, lineNumber, "Disabled element should have aria-disabled=\"true\" for screen readers", "MEDIUM")
     ELSE null

checkMissingAriaRequired(line, lineNumber) ==
  LET trimmedLine == trim(line)
  IN IF (includes(trimmedLine, "required") \/ includes(trimmedLine, "aria-required=\"true\""))
        /\ ~includes(trimmedLine, "aria-required")
        /\ (includes(trimmedLine, "<input") \/ includes(trimmedLine, "<select") \/ includes(trimmedLine, "<textarea"))
     THEN Issue(line, lineNumber, "Required form element should have aria-required=\"true\"", "MEDIUM")
     ELSE null

checkMissingAriaInvalid(line, lineNumber) ==
  LET trimmedLine == trim(line)
  IN IF (includes(trimmedLine, "error") \/ includes(trimmedLine, "invalid") \/ includes(trimmedLine, "class=\"error\""))
        /\ ~includes(trimmedLine, "aria-invalid")
        /\ (includes(trimmedLine, "<input") \/ includes(trimmedLine, "<select") \/ includes(trimmedLine, "<textarea"))
     THEN Issue(line, lineNumber, "Form element with validation error should have aria-invalid=\"true\"", "MEDIUM")
     ELSE null

checkEmptyButtonElements(line, lineNumber) ==
  LET trimmedLine == trim(line)
      buttonMatch == matchElement(trimmedLine, "<button", "</button>")
      content == trim(buttonMatch[1])
      hasAccessibleName == includes(trimmedLine, "aria-label") \/ includes(trimmedLine, "aria-labelledby")
                           \/ includes(trimmedLine, "title=")
  IN IF includes(trimmedLine, "<button") /\ includes(trimmedLine, "</button>")
        /\ buttonMatch # NoMatch
        /\ (Len(content) = 0 \/ onlyWhitespace(content))
        /\ ~hasAccessibleName
     THEN Issue(line, lineNumber, "Empty button element needs accessible name (aria-label, aria-labelledby, or visible text)", "HIGH")
     ELSE null

checkAriaLabelAndRole(line, lineNumber, fullText) ==
  runChecks(FamAria, <<checkMissingAriaLabel(line, lineNumber),
                       checkEmptyAriaLabel(line, lineNumber),
                       checkRedundantAriaLabel(line, lineNumber),
                       checkInvalidRole(line, lineNumber),
                       checkRedundantRole(line, lineNumber),
                       checkMissingAriaLabelledbyReference(line, lineNumber, fullText),
                       checkMissingAriaDescribedbyReference(line, lineNumber, fullText),
                       checkMissingAriaExpanded(line, lineNumber),
                       checkIncorrectAriaExpanded(line, lineNumber),
                       checkMissingAriaHiddenOnDecorative(line, lineNumber),
                       checkConflictingAriaHiddenAndRole(line, lineNumber),
                       checkMissingAriaDisabled(line, lineNumber),
                       checkMissingAriaRequired(line, lineNumber),
                       checkMissingAriaInvalid(line, lineNumber),
                       checkEmptyButtonElements(line, lineNumber)>>, 1)

(***************************************************************************)
(* TabIndexChecker                                                         *)
(***************************************************************************)
NATURALLY_FOCUSABLE == {"button", "input", "select", "textarea", "a", "area", "summary", "details"}

NON_FOCUSABLE == {"div", "span", "p", "h1", "h2", "h3", "h4", "h5", "h6", "img", "br", "hr"}

checkNegativeTabIndex(line, lineNumber) ==
  LET trimmedLine == trim(line)
      negativeTabIndexMatch == matchQuoted(trimmedLine, "tabindex=", negativeValue)
  IN IF negativeTabIndexMatch # NoMatch
     THEN Issue(line, lineNumber,
                "Negative tabindex=\"" \o negativeTabIndexMatch[1]
                  \o "\" removes element from tab order - ensure this is intentional", "HIGH")
     ELSE null

checkTabIndexZeroOnNonInteractive(line, lineNumber) ==
  LET trimmedLine == trim(line)
      isNonInteractive ==
        \E element \in NON_FOCUSABLE :
          includes(trimmedLine, "<" \o element) /\ ~includes(trimmedLine, "role=")
  IN IF (includes(trimmedLine, "tabindex=\"0\"") \/ includes(trimmedLine, "tabindex='0'"))
        /\ isNonInteractive
     THEN Issue(line, lineNumber, "Non-interactive element with tabindex=\"0\" - add role attribute or use semantic element", "HIGH")
     ELSE null

\* a detector of custom interactive elements that knows role="button" only
checkMissingTabIndexOnCustomInteractive_buttonOnly(line, lineNumber) ==
  LET trimmedLine == trim(line)
  IN IF includes(trimmedLine, "role=\"button\"") /\ ~includes(trimmedLine, "tabindex=")
     THEN Issue(line, lineNumber, "Custom interactive element missing tabindex - add tabindex=\"0\" for keyboard accessibility", "HIGH")
     ELSE null

checkMissingTabIndexOnCustomInteractive(line, lineNumber) ==
  LET trimmedLine == trim(line)
      hasInteractiveRole ==
        \/ includes(trimmedLine, "role=\"button\"")
        \/ includes(trimmedLine, "role=\"link\"")
        \/ includes(trimmedLine, "role=\"menuitem\"")
        \/ includes(trimmedLine, "role=\"tab\"")
        \/ includes(trimmedLine, "role=\"option\"")
        \/ includes(trimmedLine, "role=\"checkbox\"")
  IN IF hasInteractiveRole /\ ~includes(trimmedLine, "tabindex=")
     THEN Issue(line, lineNumber, "Custom interactive element missing tabindex - add tabindex=\"0\" for keyboard accessibility", "HIGH")
     ELSE null

checkRedundantTabIndexOnFocusable(line, lineNumber) ==
  LET trimmedLine == trim(line)
      isNaturallyFocusable == \E element \in NATURALLY_FOCUSABLE : includes(trimmedLine, "<" \o element)
  IN IF isNaturallyFocusable /\ includes(trimmedLine, "tabindex=")
     THEN Issue(line, lineNumber, "Redundant tabindex on naturally focusable element - remove unless changing tab order", "MEDIUM")
     ELSE null

checkPositiveTabIndex(line, lineNumber) ==
  LET trimmedLine == trim(line)
      positiveTabIndexMatch == matchQuoted(trimmedLine, "tabindex=", positiveValue)
  IN IF positiveTabIndexMatch # NoMatch
     THEN Issue(line, lineNumber,
                "Positive tabindex=\"" \o positiveTabIndexMatch[1]
                  \o "\" disrupts natural tab order - use tabindex=\"0\" or negative values only", "MEDIUM")
     ELSE null

checkMissingTabIndexOnClickable(line, lineNumber) ==
  LET trimmedLine == trim(line)
  IN IF (includes(trimmedLine, "onclick") \/ includes(trimmedLine, "onkeydown"))
        /\ ~includes(trimmedLine, "tabindex=")
        /\ (includes(trimmedLine, "<div") \/ includes(trimmedLine, "<span"))
     THEN Issue(line, lineNumber, "Clickable element missing tabindex - add tabindex=\"0\" for keyboard accessibility", "MEDIUM")
     ELSE null

checkDisabledElementWithTabIndex(line, lineNumber) ==
  LET trimmedLine == trim(line)
  IN IF (includes(trimmedLine, "disabled") \/ includes(trimmedLine, "aria-disabled=\"true\""))
        /\ includes(trimmedLine, "tabindex=")
     THEN Issue(line, lineNumber, "Disabled element should not be focusable - remove tabindex or use tabindex=\"-1\"", "MEDIUM")
     ELSE null

checkTabIndexOnHiddenElement(line, lineNumber) ==
  LET trimmedLine == trim(line)
  IN IF (includes(trimmedLine, "hidden") \/ includes(trimmedLine, "aria-hidden=\"true\"")
         \/ includes(trimmedLine, "style=\"display: none\"") \/ includes(trimmedLine, "style=\"visibility: hidden\""))
        /\ includes(trimmedLine, "tabindex=")
     THEN Issue(line, lineNumber, "Hidden element should not be focusable - remove tabindex or use tabindex=\"-1\"", "MEDIUM")
     ELSE null

checkTabIndexOnDecorativeElement(line, lineNumber) ==
  LET trimmedLine == trim(line)
  IN IF (includes(trimmedLine, "decorative") \/ includes(trimmedLine, "ornament")
         \/ includes(trimmedLine, "spacer") \/ includes(trimmedLine, "divider"))
        /\ includes(trimmedLine, "tabindex=")
     THEN Issue(line, lineNumber, "Decorative element should not be focusable - remove tabindex or use tabindex=\"-1\"", "LOW")
     ELSE null

checkInconsistentTabIndexUsage(line, lineNumber) ==
  LET trimmedLine == trim(line)
      tabIndexMatch == matchQuoted(trimmedLine, "tabindex=", anyValue)
      tabIndexValue == tabIndexMatch[1]
  IN IF includes(trimmedLine, "tabindex=") /\ tabIndexMatch # NoMatch
        /\ (tabIndexValue = "1" \/ tabIndexValue = "2" \/ tabIndexValue = "3")
     THEN Issue(line, lineNumber,
                "Low positive tabindex=\"" \o tabIndexValue
                  \o "\" may cause confusion - consider using tabindex=\"0\" or negative values", "LOW")
     ELSE null

checkMissingTabIndexOnModalTrigger(line, lineNumber) ==
  LET trimmedLine == trim(line)
  IN IF (\/ includes(trimmedLine, "data-toggle=\"modal\"")
         \/ includes(trimmedLine, "data-bs-toggle=\"modal\"")
         \/ includes(trimmedLine, "onclick") /\ includes(trimmedLine, "modal"))
        /\ ~includes(trimmedLine, "tabindex=")
        /\ (includes(trimmedLine, "<div") \/ includes(trimmedLine, "<span"))
     THEN Issue(line, lineNumber, "Modal trigger element missing tabindex - add tabindex=\"0\" for keyboard accessibility", "MEDIUM")
     ELSE null

checkTabIndexOnPresentationRole(line, lineNumber) ==
  LET trimmedLine == trim(line)
  IN IF includes(trimmedLine, "role=\"presentation\"") /\ includes(trimmedLine, "tabindex=")
     THEN Issue(line, lineNumber, "Element with role=\"presentation\" should not be focusable - remove tabindex", "HIGH")
     ELSE null

checkTabIndexOnNoneRole(line, lineNumber) ==
  LET trimmedLine == trim(line)
  IN IF includes(trimmedLine, "role=\"none\"") /\ includes(trimmedLine, "tabindex=")
     THEN Issue(line, lineNumber, "Element with role=\"none\" should not be focusable - remove tabindex", "HIGH")
     ELSE null

checkTabIndexOnAriaHidden(line, lineNumber) ==
  LET trimmedLine == trim(line)
  IN IF includes(trimmedLine, "aria-hidden=\"true\"") /\ includes(trimmedLine, "tabindex=")
     THEN Issue(line, lineNumber, "Element with aria-hidden=\"true\" should not be focusable - remove tabindex", "HIGH")
     ELSE null

checkMissingTabIndexOnCustomFormControl(line, lineNumber) ==
  LET trimmedLine == trim(line)
  IN IF (includes(trimmedLine, "role=\"combobox\"") \/ includes(trimmedLine, "role=\"slider\"")
         \/ includes(trimmedLine, "role=\"spinbutton\""))
        /\ ~includes(trimmedLine, "tabindex=")
     THEN Issue(line, lineNumber, "Custom form control missing tabindex - add tabindex=\"0\" for keyboard accessibility", "MEDIUM")
     ELSE null

checkTabIndexOnNonInteractiveElement(line, lineNumber) ==
  LET trimmedLine == trim(line)
  IN IF (includes(trimmedLine, "<p") \/ includes(trimmedLine, "<h1") \/ includes(trimmedLine, "<h2")
         \/ includes(trimmedLine, "<h3") \/ includes(trimmedLine, "<h4") \/ includes(trimmedLine, "<h5")
         \/ includes(trimmedLine, "<h6") \/ includes(trimmedLine, "<img"))
        /\ includes(trimmedLine, "tabindex=") /\ ~includes(trimmedLine, "role=")
     THEN Issue(line, lineNumber, "Non-interactive element with tabindex - consider if this element should be focusable", "LOW")
     ELSE null

checkTabIndex(line, lineNumber) ==
  runChecks(FamTabIndex, <<checkNegativeTabIndex(line, lineNumber),
                           checkTabIndexZeroOnNonInteractive(line, lineNumber),
                           checkMissingTabIndexOnCustomInteractive(line, lineNumber),
                           checkTabIndexOnPresentationRole(line, lineNumber),
                           checkTabIndexOnNoneRole(line, lineNumber),
                           checkTabIndexOnAriaHidden(line, lineNumber),
                           checkRedundantTabIndexOnFocusable(line, lineNumber),
                           checkPositiveTabIndex(line, lineNumber),
                           checkMissingTabIndexOnClickable(line, lineNumber),
                           checkDisabledElementWithTabIndex(line, lineNumber),
                           checkTabIndexOnHiddenElement(line, lineNumber),
                           checkMissingTabIndexOnModalTrigger(line, lineNumber),
                           checkMissingTabIndexOnCustomFormControl(line, lineNumber),
                           checkTabIndexOnDecorativeElement(line, lineNumber),
                           checkInconsistentTabIndexUsage(line, lineNumber),
                           checkTabIndexOnNonInteractiveElement(line, lineNumber)>>, 1)

(***************************************************************************)
(* SemanticHtmlChecker                                                     *)
(* A detector with several returns yields the first one whose condition    *)
(* holds, as the code's early returns do.  The arrows of the heading       *)
(* message are written -> here.                                            *)
(***************************************************************************)
checkHeadingHierarchy(line, lineNumber, fullText) ==
  LET trimmedLine == trim(line)
      h1Count == countH1(fullText, 0)
      headingMatch == matchHeading(trimmedLine)
      currentLevel == parseInt(headingMatch[1])
  IN IF includes(trimmedLine, "<h1>") /\ h1Count > 1
     THEN Issue(line, lineNumber, "Multiple h1 tags found - page should have only one h1 for proper document structure", "HIGH")
     ELSE IF headingMatch # NoMatch /\ currentLevel > 1
     THEN Issue(line, lineNumber,
                "Heading h" \o headingMatch[1]
                  \o " detected - ensure proper heading hierarchy (h1 -> h2 -> h3, etc.)", "MEDIUM")
     ELSE null

Semantic_checkHtmlLangAttribute(line, lineNumber) ==
  LET trimmedLine == trim(line)
  IN IF includes(trimmedLine, "<html") /\ ~includes(trimmedLine, "lang=")
     THEN Issue(line, lineNumber, "Missing lang attribute on html tag - required for screen readers and language detection", "HIGH")
     ELSE null

checkListStructure(line, lineNumber) ==
  LET trimmedLine == trim(line)
  IN IF includes(trimmedLine, "<li>") /\ ~includes(trimmedLine, "<ul") /\ ~includes(trimmedLine, "<ol")
     THEN Issue(line, lineNumber, "List item (li) found without proper list container (ul/ol)", "HIGH")
     ELSE IF includes(trimmedLine, "<ul") /\ includes(trimmedLine, "<ol")
     THEN Issue(line, lineNumber, "Mixed list types (ul and ol) in same line - ensure proper nesting", "MEDIUM")
     ELSE null

checkTableStructure(line, lineNumber) ==
  LET trimmedLine == trim(line)
  IN IF includes(trimmedLine, "<td>") /\ ~includes(trimmedLine, "<table") /\ ~includes(trimmedLine, "<tr")
     THEN Issue(line, lineNumber, "Table cell (td) found without proper table structure (table > tr > td)", "HIGH")
     ELSE IF includes(trimmedLine, "<th>") /\ ~includes(trimmedLine, "<table") /\ ~includes(trimmedLine, "<tr")
     THEN Issue(line, lineNumber, "Table header (th) found without proper table structure (table > tr > th)", "HIGH")
     ELSE IF includes(trimmedLine, "<table") /\ ~includes(trimmedLine, "caption") /\ ~includes(trimmedLine, "summary")
     THEN Issue(line, lineNumber, "Table missing caption or summary - add caption for table description", "MEDIUM")
     ELSE null

checkFormStructure(line, lineNumber) ==
  LET trimmedLine == trim(line)
  IN IF (includes(trimmedLine, "<input") \/ includes(trimmedLine, "<select") \/ includes(trimmedLine, "<textarea"))
        /\ ~includes(trimmedLine, "aria-label") /\ ~includes(trimmedLine, "aria-labelledby")
        /\ ~includes(trimmedLine, "<label")
     THEN Issue(line, lineNumber, "Form control missing label - add label, aria-label, or aria-labelledby", "HIGH")
     ELSE IF includes(trimmedLine, "<fieldset") /\ ~includes(trimmedLine, "<legend")
     THEN Issue(line, lineNumber, "Fieldset missing legend - add legend to describe fieldset purpose", "HIGH")
     ELSE null

checkButtonUsage(line, lineNumber) ==
  LET trimmedLine == trim(line)
  IN IF (includes(trimmedLine, "<div") \/ includes(trimmedLine, "<span"))
        /\ includes(trimmedLine, "onclick") /\ ~includes(trimmedLine, "role=\"button\"")
     THEN Issue(line, lineNumber, "Use semantic button element instead of div/span with onclick for better accessibility", "HIGH")
     ELSE IF includes(trimmedLine, "<button")
             /\ ~includes(trimmedLine, "aria-label") /\ ~includes(trimmedLine, "aria-labelledby")
             /\ matchElement(trimmedLine, "<button", "</button>") = NoMatch
     THEN Issue(line, lineNumber, "Button missing accessible text - add text content or aria-label", "HIGH")
     ELSE null

checkLinkUsage(line, lineNumber) ==
  LET trimmedLine == trim(line)
  IN IF includes(trimmedLine, "<a")
        /\ ~includes(trimmedLine, "aria-label") /\ ~includes(trimmedLine, "aria-labelledby")
        /\ matchElement(trimmedLine, "<a", "</a>") = NoMatch
     THEN Issue(line, lineNumber, "Link missing accessible text - add text content or aria-label", "HIGH")
     ELSE IF includes(trimmedLine, "<a")
             /\ (includes(trimmedLine, ">click here<") \/ includes(trimmedLine, ">read more<")
                 \/ includes(trimmedLine, ">here<") \/ includes(trimmedLine, ">more<"))
     THEN Issue(line, lineNumber, "Link text is not descriptive - use meaningful link text instead of \"click here\" or \"read more\"", "MEDIUM")
     ELSE null

checkLandmarkUsage(line, lineNumber) ==
  LET trimmedLine == trim(line)
  IN IF includes(trimmedLine, "<body") /\ ~includes(trimmedLine, "role=\"main\"") /\ ~includes(trimmedLine, "<main")
     THEN Issue(line, lineNumber, "Page missing main landmark - add <main> or role=\"main\" for primary content", "MEDIUM")
     ELSE IF includes(trimmedLine, "<main") \/ includes(trimmedLine, "role=\"main\"")
     THEN Issue(line, lineNumber, "Main landmark detected - ensure only one main landmark per page", "MEDIUM")
     ELSE null

checkSectioningElements(line, lineNumber) ==
  LET trimmedLine == trim(line)
  IN IF (includes(trimmedLine, "<section") \/ includes(trimmedLine, "<article"))
        /\ ~includes(trimmedLine, "<h1") /\ ~includes(trimmedLine, "<h2") /\ ~includes(trimmedLine, "<h3")
        /\ ~includes(trimmedLine, "<h4") /\ ~includes(trimmedLine, "<h5") /\ ~includes(trimmedLine, "<h6")
     THEN Issue(line, lineNumber, "Section/article should have a heading to describe its purpose", "MEDIUM")
     ELSE null

checkNavigationStructure(line, lineNumber) ==
  LET trimmedLine == trim(line)
  IN IF includes(trimmedLine, "<nav") /\ ~includes(trimmedLine, "<ul") /\ ~includes(trimmedLine, "<ol")
     THEN Issue(line, lineNumber, "Navigation should use list structure (ul/ol) for better screen reader support", "MEDIUM")
     ELSE null

\* a document-structure detector that looks at the document only, so that it
\* reports on every line of a document without a title
checkDocumentStructure_documentOnly(line, lineNumber, fullText) ==
  IF ~includes(fullText, "<title>")
  THEN Issue(line, lineNumber, "Document missing title element - add <title> for page identification", "HIGH")
  ELSE null

checkDocumentStructure(line, lineNumber, fullText) ==
  LET trimmedLine == trim(line)
  IN IF includes(trimmedLine, "<head") /\ ~includes(fullText, "<title>")
     THEN Issue(line, lineNumber, "Document missing title element - add <title> for page identification", "HIGH")
     ELSE IF includes(trimmedLine, "<head") /\ ~includes(fullText, "viewport")
     THEN Issue(line, lineNumber, "Missing viewport meta tag - add for responsive design and mobile accessibility", "MEDIUM")
     ELSE null

checkSemanticHtml(line, lineNumber, fullText) ==
  runChecks(FamSemantic, <<checkHeadingHierarchy(line, lineNumber, fullText),
                           Semantic_checkHtmlLangAttribute(line, lineNumber),
                           checkListStructure(line, lineNumber),
                           checkTableStructure(line, lineNumber),
                           checkFormStructure(line, lineNumber),
                           checkButtonUsage(line, lineNumber),
                           checkLinkUsage(line, lineNumber),
                           checkLandmarkUsage(line, lineNumber),
                           checkSectioningElements(line, lineNumber),
                           checkNavigationStructure(line, lineNumber),
                           checkDocumentStructure(line, lineNumber, fullText)>>, 1)

(***************************************************************************)
(* Family runners that exist in the sources and that the aggregator does   *)
(* not call.  Their issues carry family 0: they have no position in the    *)
(* aggregator's allIssues list.                                            *)
(***************************************************************************)
\* some element of the set ps is a substring of s
includesAny(s, ps) == \E p \in ps : includes(s, p)

(***************************************************************************)
(* InputPurposeChecker                                                     *)
(***************************************************************************)
AUTOCOMPLETE_VALUES ==
  {"name", "honorific-prefix", "given-name", "additional-name", "family-name", "honorific-suffix",
   "nickname", "email", "username", "new-password", "current-password", "one-time-code",
   "organization-title", "organization", "street-address", "address-line1", "address-line2",
   "address-line3", "address-level1", "address-level2", "address-level3", "address-level4",
   "country", "country-name", "postal-code", "cc-name", "cc-given-name", "cc-additional-name",
   "cc-family-name", "cc-number", "cc-exp", "cc-exp-month", "cc-exp-year", "cc-csc", "cc-type",
   "transaction-currency", "transaction-amount", "language", "bday", "bday-day", "bday-month",
   "bday-year", "sex", "tel", "tel-country-code", "tel-national", "tel-area-code", "tel-local",
   "tel-local-prefix", "tel-local-suffix", "tel-extension", "url", "photo", "webauthn"}

checkInputPurpose(line, lineNumber) ==
  LET checkMissingAutocomplete ==
        LET trimmedLine == trim(line)
        IN IF includesAny(trimmedLine, {"<input", "<select", "<textarea"})
              /\ ~includes(trimmedLine, "autocomplete=")
              /\ ~includes(trimmedLine, "disabled")
              /\ ~includes(trimmedLine, "readonly")
           THEN Issue(line, lineNumber, "Form input missing autocomplete attribute - add autocomplete for user information fields", "HIGH")
           ELSE null
      checkInvalidAutocomplete ==
        LET trimmedLine == trim(line)
            autocompleteMatch == matchQuoted(trimmedLine, "autocomplete=", anyValue)
            value == autocompleteMatch[1]
        IN IF includes(trimmedLine, "autocomplete=") /\ autocompleteMatch # NoMatch
              /\ value # "off" /\ value \notin AUTOCOMPLETE_VALUES
           THEN Issue(line, lineNumber, "Invalid autocomplete value \"" \o value \o "\" - use standard autocomplete values or \"off\"", "HIGH")
           ELSE null
      checkInputTypeAutocompleteMismatch ==
        LET trimmedLine == trim(line)
            typeMatch == matchQuoted(trimmedLine, "type=", anyValue)
            autocompleteMatch == matchQuoted(trimmedLine, "autocomplete=", anyValue)
            inputType == typeMatch[1]
            autocompleteValue == autocompleteMatch[1]
        IN IF includes(trimmedLine, "<input") /\ includes(trimmedLine, "autocomplete=")
              /\ typeMatch # NoMatch /\ autocompleteMatch # NoMatch
           THEN IF inputType = "email" /\ ~includes(autocompleteValue, "email")
                THEN Issue(line, lineNumber, "Email input should have autocomplete=\"email\" or related email field", "MEDIUM")
                ELSE IF inputType = "password" /\ ~includes(autocompleteValue, "password")
                THEN Issue(line, lineNumber, "Password input should have autocomplete=\"current-password\" or \"new-password\"", "MEDIUM")
                ELSE null
           ELSE null
      \* the guard the field detectors share: an input with a name or an id and no autocomplete
      namedInputWithoutAutocomplete(trimmedLine) ==
        /\ includes(trimmedLine, "<input")
        /\ (includes(trimmedLine, "name=") \/ includes(trimmedLine, "id="))
        /\ ~includes(trimmedLine, "autocomplete=")
      checkPersonalInformationFields ==
        LET trimmedLine == trim(line)
            fieldName == toLowerCase(trimmedLine)
        IN IF namedInputWithoutAutocomplete(trimmedLine)
              /\ includesAny(fieldName, {"name", "email", "phone", "address", "city", "state",
                                         "zip", "country", "birth", "gender", "age"})
           THEN Issue(line, lineNumber, "Personal information field missing autocomplete attribute - add appropriate autocomplete value", "HIGH")
           ELSE null
      checkFinancialFields ==
        LET trimmedLine == trim(line)
            fieldName == toLowerCase(trimmedLine)
        IN IF namedInputWithoutAutocomplete(trimmedLine)
              /\ includesAny(fieldName, {"card", "credit", "debit", "cvv", "cvc", "expiry", "amount", "currency"})
           THEN Issue(line, lineNumber, "Financial field missing autocomplete attribute - add appropriate autocomplete value", "HIGH")
           ELSE null
      checkAuthenticationFields ==
        LET trimmedLine == trim(line)
            fieldName == toLowerCase(trimmedLine)
        IN IF namedInputWithoutAutocomplete(trimmedLine)
              /\ includesAny(fieldName, {"username", "login", "password", "otp", "verification", "code"})
           THEN Issue(line, lineNumber, "Authentication field missing autocomplete attribute - add appropriate autocomplete value", "HIGH")
           ELSE null
      checkContactFields ==
        LET trimmedLine == trim(line)
            fieldName == toLowerCase(trimmedLine)
        IN IF namedInputWithoutAutocomplete(trimmedLine)
              /\ includesAny(fieldName, {"phone", "tel", "mobile", "fax", "website", "url"})
           THEN Issue(line, lineNumber, "Contact field missing autocomplete attribute - add appropriate autocomplete value", "MEDIUM")
           ELSE null
      checkAddressFields ==
        LET trimmedLine == trim(line)
            fieldName == toLowerCase(trimmedLine)
        IN IF namedInputWithoutAutocomplete(trimmedLine)
              /\ includesAny(fieldName, {"street", "address", "city", "state", "province", "zip", "postal", "country"})
           THEN Issue(line, lineNumber, "Address field missing autocomplete attribute - add appropriate autocomplete value", "HIGH")
           ELSE null
      checkAutocompleteOffOnUserFields ==
        LET trimmedLine == trim(line)
            fieldName == toLowerCase(trimmedLine)
        IN IF (includes(trimmedLine, "autocomplete=\"off\"") \/ includes(trimmedLine, "autocomplete='off'"))
              /\ includesAny(fieldName, {"name", "email", "phone", "address", "birth", "gender"})
           THEN Issue(line, lineNumber, "User information field has autocomplete=\"off\" - consider using appropriate autocomplete value", "MEDIUM")
           ELSE null
  IN runChecks(0, <<checkMissingAutocomplete,
                    checkInvalidAutocomplete,
                    checkInputTypeAutocompleteMismatch,
                    checkPersonalInformationFields,
                    checkFinancialFields,
                    checkAuthenticationFields,
                    checkContactFields,
                    checkAddressFields,
                    checkAutocompleteOffOnUserFields>>, 1)


checkLabelNameConsistency(line, lineNumber) ==
  LET (***************************************************************************)
      (* LabelNameConsistencyChecker                                             *)
      (***************************************************************************)
      \* the visible text the name detectors read: the content of the first button
      \* element if the line has <button, else of the first a element if it has <a,
      \* trimmed; "" when the pattern does not match
      visibleTextOf(trimmedLine) ==
        IF includes(trimmedLine, "<button")
        THEN LET buttonMatch == matchElement(trimmedLine, "<button", "</button>")
             IN IF buttonMatch # NoMatch THEN trim(buttonMatch[1]) ELSE ""
        ELSE IF includes(trimmedLine, "<a")
        THEN LET linkMatch == matchElement(trimmedLine, "<a", "</a>")
             IN IF linkMatch # NoMatch THEN trim(linkMatch[1]) ELSE ""
        ELSE ""
      checkLabelNameConsistencyIssue ==
        LET trimmedLine == trim(line)
            visibleText == visibleTextOf(trimmedLine)
            ariaLabelMatch == matchQuoted(trimmedLine, "aria-label=", anyValue)
            ariaLabelValue == trim(ariaLabelMatch[1])
        IN IF includes(trimmedLine, "aria-label=")
              /\ includesAny(trimmedLine, {"<button", "<a", "<input"})
              /\ ariaLabelMatch # NoMatch /\ visibleText # ""
              /\ ~includes(toLowerCase(ariaLabelValue), toLowerCase(visibleText))
              /\ ~includes(toLowerCase(visibleText), toLowerCase(ariaLabelValue))
           THEN Issue(line, lineNumber, "Label-name inconsistency - aria-label should contain the visible text or be consistent with it", "HIGH")
           ELSE null
      checkMissingAccessibleNames ==
        LET trimmedLine == trim(line)
            hasVisibleText == Len(visibleTextOf(trimmedLine)) > 0
        IN IF includesAny(trimmedLine, {"<button", "<a", "<input"})
              /\ ~includes(trimmedLine, "aria-label") /\ ~includes(trimmedLine, "aria-labelledby")
              /\ ~includes(trimmedLine, "title=")
              /\ ~hasVisibleText
           THEN Issue(line, lineNumber, "Interactive element missing accessible name - add aria-label, aria-labelledby, or visible text", "HIGH")
           ELSE null
      checkRedundantAccessibleNames ==
        LET trimmedLine == trim(line)
            visibleText == visibleTextOf(trimmedLine)
            ariaLabelMatch == matchQuoted(trimmedLine, "aria-label=", anyValue)
            ariaLabelValue == trim(ariaLabelMatch[1])
        IN IF includes(trimmedLine, "aria-label=")
              /\ includesAny(trimmedLine, {"<button", "<a"})
              /\ ariaLabelMatch # NoMatch /\ visibleText # ""
              /\ toLowerCase(ariaLabelValue) = toLowerCase(visibleText)
           THEN Issue(line, lineNumber, "Redundant accessible name - aria-label is identical to visible text", "MEDIUM")
           ELSE null
      checkConflictingAccessibleNames ==
        LET trimmedLine == trim(line)
        IN IF includes(trimmedLine, "aria-label=") /\ includes(trimmedLine, "aria-labelledby=")
           THEN Issue(line, lineNumber, "Conflicting accessible names - element has both aria-label and aria-labelledby", "HIGH")
           ELSE null
      checkEmptyAccessibleNames ==
        LET trimmedLine == trim(line)
        IN IF includesAny(trimmedLine, {"aria-label=\"\"", "aria-label=''", "aria-label=\" \"", "aria-label=' '"})
           THEN Issue(line, lineNumber, "Empty accessible name - aria-label is empty or contains only whitespace", "HIGH")
           ELSE null
      checkAccessibleNamesOnNonInteractive ==
        LET trimmedLine == trim(line)
        IN IF includes(trimmedLine, "aria-label=")
              /\ includesAny(trimmedLine, {"<div", "<span", "<p"})
              /\ ~includes(trimmedLine, "role=") /\ ~includes(trimmedLine, "tabindex=")
           THEN Issue(line, lineNumber, "Non-interactive element with aria-label - add role attribute or use semantic element", "MEDIUM")
           ELSE null
      checkFormElementAccessibleNames ==
        LET trimmedLine == trim(line)
        IN IF includesAny(trimmedLine, {"<input", "<select", "<textarea"})
              /\ ~includes(trimmedLine, "aria-label") /\ ~includes(trimmedLine, "aria-labelledby")
              /\ ~includes(trimmedLine, "title=") /\ ~includes(trimmedLine, "placeholder=")
              /\ (~includes(trimmedLine, "id=") \/ ~includes(trimmedLine, "for="))
           THEN Issue(line, lineNumber, "Form element missing accessible name - add label, aria-label, or aria-labelledby", "HIGH")
           ELSE null
      checkCustomControlAccessibleNames ==
        LET trimmedLine == trim(line)
            textMatch == matchTextContent(trimmedLine)
            hasVisibleText == /\ includes(trimmedLine, ">") /\ includes(trimmedLine, "</")
                              /\ textMatch # NoMatch /\ Len(trim(textMatch[1])) > 0
        IN IF includes(trimmedLine, "role=")
              /\ includesAny(trimmedLine, {"role=\"button\"", "role=\"link\"", "role=\"menuitem\"",
                                           "role=\"tab\"", "role=\"option\"", "role=\"checkbox\""})
              /\ ~includes(trimmedLine, "aria-label") /\ ~includes(trimmedLine, "aria-labelledby")
              /\ ~hasVisibleText
           THEN Issue(line, lineNumber, "Custom control missing accessible name - add aria-label, aria-labelledby, or visible text", "HIGH")
           ELSE null
      checkImageAccessibleNames ==
        LET trimmedLine == trim(line)
        IN IF includes(trimmedLine, "<img")
              /\ ~includes(trimmedLine, "alt=") /\ ~includes(trimmedLine, "aria-label=")
              /\ ~includes(trimmedLine, "aria-labelledby=")
           THEN Issue(line, lineNumber, "Image missing accessible name - add alt, aria-label, or aria-labelledby", "HIGH")
           ELSE null
  IN runChecks(0, <<checkLabelNameConsistencyIssue,
                    checkMissingAccessibleNames,
                    checkRedundantAccessibleNames,
                    checkConflictingAccessibleNames,
                    checkEmptyAccessibleNames,
                    checkAccessibleNamesOnNonInteractive,
                    checkFormElementAccessibleNames,
                    checkCustomControlAccessibleNames,
                    checkImageAccessibleNames>>, 1)


checkKeyboardNavigation(line, lineNumber, fullText) ==
  LET (***************************************************************************)
      (* KeyboardNavigationChecker                                               *)
      (***************************************************************************)
      Keyboard_checkKeyboardAccessibility ==
        LET trimmedLine == trim(line)
        IN IF (includes(trimmedLine, "<div") \/ includes(trimmedLine, "<span"))
              /\ includes(trimmedLine, "onclick")
              /\ ~includes(trimmedLine, "onkeydown")
              /\ ~includes(trimmedLine, "onkeyup")
              /\ ~includes(trimmedLine, "onkeypress")
              /\ ~includes(trimmedLine, "tabindex=")
           THEN Issue(line, lineNumber, "Clickable element missing keyboard support - add onkeydown/onkeyup handlers or use semantic button element", "HIGH")
           ELSE null
      checkKeyboardTrap ==
        LET trimmedLine == trim(line)
        IN IF includes(trimmedLine, "tabindex=")
              /\ (includes(trimmedLine, "tabindex=\"0\"") \/ includes(trimmedLine, "tabindex='0'"))
              /\ includesAny(trimmedLine, {"role=\"dialog\"", "role=\"alertdialog\"", "modal", "popup"})
           THEN Issue(line, lineNumber, "Modal/dialog element detected - ensure keyboard trap is properly managed with Escape key", "HIGH")
           ELSE null
      checkMissingKeyboardHandlers ==
        LET trimmedLine == trim(line)
        IN IF includes(trimmedLine, "onclick")
              /\ ~includes(trimmedLine, "onkeydown")
              /\ ~includes(trimmedLine, "onkeyup")
              /\ ~includes(trimmedLine, "onkeypress")
              /\ (includes(trimmedLine, "<div") \/ includes(trimmedLine, "<span"))
           THEN Issue(line, lineNumber, "Interactive element missing keyboard event handlers - add onkeydown/onkeyup for accessibility", "HIGH")
           ELSE null
      checkKeyboardNavigationOrder ==
        LET trimmedLine == trim(line)
            positiveTabIndexMatch == matchQuoted(trimmedLine, "tabindex=", positiveValue)
            tabIndexValue == positiveTabIndexMatch[1]
        IN IF positiveTabIndexMatch # NoMatch
           THEN Issue(line, lineNumber, "Positive tabindex=\"" \o tabIndexValue \o "\" disrupts natural keyboard navigation order - use tabindex=\"0\" or negative values", "HIGH")
           ELSE null
      checkMissingSkipLinks ==
        LET trimmedLine == trim(line)
        IN IF includes(trimmedLine, "<body") /\ ~includes(fullText, "skip") /\ ~includes(fullText, "skip-link")
           THEN Issue(line, lineNumber, "Page missing skip links - add skip links for keyboard navigation to main content", "MEDIUM")
           ELSE null
      checkKeyboardShortcuts ==
        LET trimmedLine == trim(line)
        IN IF includes(trimmedLine, "onkeydown")
              /\ includesAny(trimmedLine, {"keyCode", "key", "which"})
           THEN Issue(line, lineNumber, "Keyboard shortcut detected - ensure users can turn off or remap shortcuts", "MEDIUM")
           ELSE null
      checkAriaKeyboardNavigation ==
        LET trimmedLine == trim(line)
        IN IF includes(trimmedLine, "role=")
              /\ includesAny(trimmedLine, {"role=\"menu\"", "role=\"menubar\"", "role=\"tablist\"", "role=\"grid\""})
              /\ ~includes(trimmedLine, "tabindex=") /\ ~includes(trimmedLine, "onkeydown")
           THEN Issue(line, lineNumber, "ARIA role requires keyboard navigation - add proper keyboard event handlers", "HIGH")
           ELSE null
      checkFormKeyboardNavigation ==
        LET trimmedLine == trim(line)
        IN IF (includes(trimmedLine, "<select") \/ includes(trimmedLine, "<input"))
              /\ ~includes(trimmedLine, "tabindex=")
              /\ ~includes(trimmedLine, "disabled")
           THEN Issue(line, lineNumber, "Form element should be keyboard accessible - ensure proper tabindex and keyboard support", "MEDIUM")
           ELSE null
  IN runChecks(0, <<Keyboard_checkKeyboardAccessibility,
                    checkKeyboardTrap,
                    checkMissingKeyboardHandlers,
                    checkKeyboardNavigationOrder,
                    checkMissingSkipLinks,
                    checkKeyboardShortcuts,
                    checkAriaKeyboardNavigation,
                    checkFormKeyboardNavigation>>, 1)

checkMissingFocusIndicators(line, lineNumber) ==
  LET trimmedLine == trim(line)
  IN IF includes(trimmedLine, ":focus")
        /\ (includes(trimmedLine, "outline: none") \/ includes(trimmedLine, "outline: 0"))
     THEN Issue(line, lineNumber, "Focus outline removed - ensure alternative focus indicator is provided", "HIGH")
     ELSE null

checkFocusManagement(line, lineNumber) ==
  LET (***************************************************************************)
      (* FocusManagementChecker                                                  *)
      (***************************************************************************)
      checkFocusOrder ==
        LET trimmedLine == trim(line)
            positiveTabIndexMatch == matchQuoted(trimmedLine, "tabindex=", positiveValue)
            tabIndexValue == positiveTabIndexMatch[1]
        IN IF positiveTabIndexMatch # NoMatch
           THEN Issue(line, lineNumber, "Positive tabindex=\"" \o tabIndexValue \o "\" disrupts natural focus order - use tabindex=\"0\" or negative values", "HIGH")
           ELSE null
      checkFocusTrap ==
        LET trimmedLine == trim(line)
        IN IF includesAny(trimmedLine, {"role=\"dialog\"", "role=\"alertdialog\"", "modal", "popup"})
              /\ ~includes(trimmedLine, "onkeydown") /\ ~includes(trimmedLine, "onkeyup")
           THEN Issue(line, lineNumber, "Modal/dialog element missing focus trap management - add keyboard handlers for focus control", "HIGH")
           ELSE null
      checkDynamicFocusManagement ==
        LET trimmedLine == trim(line)
        IN IF includesAny(trimmedLine, {"innerHTML", "appendChild", "insertBefore", "replaceChild"})
           THEN Issue(line, lineNumber, "Dynamic content manipulation detected - ensure focus management when content changes", "MEDIUM")
           ELSE null
      checkAriaFocusManagement ==
        LET trimmedLine == trim(line)
        IN IF includes(trimmedLine, "role=")
              /\ includesAny(trimmedLine, {"role=\"menu\"", "role=\"menubar\"", "role=\"tablist\"",
                                           "role=\"grid\"", "role=\"tree\"", "role=\"listbox\""})
              /\ ~includes(trimmedLine, "aria-activedescendant") /\ ~includes(trimmedLine, "tabindex=")
           THEN Issue(line, lineNumber, "ARIA component missing focus management - add aria-activedescendant or proper tabindex", "HIGH")
           ELSE null
      checkFormFocusManagement ==
        LET trimmedLine == trim(line)
        IN IF includesAny(trimmedLine, {"<input", "<select", "<textarea"})
              /\ includesAny(trimmedLine, {"error", "invalid", "required"})
              /\ ~includes(trimmedLine, "aria-invalid") /\ ~includes(trimmedLine, "aria-describedby")
           THEN Issue(line, lineNumber, "Form validation missing focus management - add aria-invalid and aria-describedby for error states", "MEDIUM")
           ELSE null
      checkSPAFocusManagement ==
        LET trimmedLine == trim(line)
        IN IF includesAny(trimmedLine, {"router", "navigate", "history.pushState", "history.replaceState"})
           THEN Issue(line, lineNumber, "SPA navigation detected - ensure focus management when route changes", "MEDIUM")
           ELSE null
      checkCollapsibleFocusManagement ==
        LET trimmedLine == trim(line)
        IN IF includesAny(trimmedLine, {"aria-expanded", "collapsible", "accordion", "dropdown"})
              /\ ~includes(trimmedLine, "onkeydown") /\ ~includes(trimmedLine, "onkeyup")
           THEN Issue(line, lineNumber, "Collapsible content missing keyboard focus management - add keyboard handlers", "MEDIUM")
           ELSE null
      checkTableFocusManagement ==
        LET trimmedLine == trim(line)
        IN IF includes(trimmedLine, "<table")
              /\ includesAny(trimmedLine, {"sortable", "filterable", "editable", "selectable"})
              /\ ~includes(trimmedLine, "role=") /\ ~includes(trimmedLine, "tabindex=")
           THEN Issue(line, lineNumber, "Interactive table missing focus management - add proper ARIA roles and tabindex", "MEDIUM")
           ELSE null
  IN runChecks(0, <<checkFocusOrder,
                    checkFocusTrap,
                    checkMissingFocusIndicators(line, lineNumber),
                    checkDynamicFocusManagement,
                    checkAriaFocusManagement,
                    checkFormFocusManagement,
                    checkSPAFocusManagement,
                    checkCollapsibleFocusManagement,
                    checkTableFocusManagement>>, 1)


checkColorContrastIssues(line, lineNumber) ==
  LET (***************************************************************************)
      (* ColorContrastChecker                                                    *)
      (***************************************************************************)
      checkColorContrastIssue ==
        LET trimmedLine == trim(line)
        IN IF includes(trimmedLine, "color:") \/ includes(trimmedLine, "background-color:")
           THEN Issue(line, lineNumber, "Color contrast validation needed - ensure text has sufficient contrast ratio (4.5:1 for normal text, 3:1 for large text)", "HIGH")
           ELSE IF includes(trimmedLine, "style=")
                   /\ (includes(trimmedLine, "color:") \/ includes(trimmedLine, "background-color:"))
           THEN Issue(line, lineNumber, "Inline color styles detected - verify contrast ratio meets WCAG 2.1 AA standards", "HIGH")
           ELSE null
      Color_checkColorOnlyInformation ==
        LET trimmedLine == trim(line)
        IN IF includes(trimmedLine, "color:")
              /\ includesAny(trimmedLine, {"red", "green", "blue", "yellow"})
              /\ ~includes(trimmedLine, "aria-label") /\ ~includes(trimmedLine, "title=")
           THEN Issue(line, lineNumber, "Color-only information detected - ensure information is not conveyed by color alone", "HIGH")
           ELSE null
      checkNonTextContrast ==
        LET trimmedLine == trim(line)
        IN IF includesAny(trimmedLine, {"border:", "outline:", "box-shadow:", "background:"})
           THEN Issue(line, lineNumber, "UI component styling detected - ensure sufficient contrast ratio (3:1) for visual elements", "MEDIUM")
           ELSE null
      checkFocusIndicatorContrast ==
        LET trimmedLine == trim(line)
        IN IF (includes(trimmedLine, ":focus") \/ includes(trimmedLine, ":focus-visible"))
              /\ (includes(trimmedLine, "outline: none") \/ includes(trimmedLine, "outline: 0"))
           THEN Issue(line, lineNumber, "Focus outline removed - ensure alternative focus indicator has sufficient contrast", "HIGH")
           ELSE null
      checkTextSpacing ==
        LET trimmedLine == trim(line)
        IN IF includesAny(trimmedLine, {"line-height:", "letter-spacing:", "word-spacing:", "text-indent:"})
           THEN Issue(line, lineNumber, "Text spacing detected - ensure content remains accessible when spacing is adjusted", "MEDIUM")
           ELSE null
  IN runChecks(0, <<checkColorContrastIssue,
                    Color_checkColorOnlyInformation,
                    checkNonTextContrast,
                    checkFocusIndicatorContrast,
                    checkTextSpacing>>, 1)

(***************************************************************************)
(* AccessibilityChecker: the aggregator and the severity classifier.       *)
(***************************************************************************)
\* vscode.DiagnosticSeverity
Error == 0

Warning == 1

Information == 2

Hint == 3

\* a classifier whose default branch falls through to the lowest level
getSeverity_defaultHint(severity) ==
  CASE severity = "HIGH" -> Error
    [] severity = "MEDIUM" -> Warning
    [] severity = "LOW" -> Information
    [] OTHER -> Hint

getSeverity(severity) ==
  CASE severity = "HIGH" -> Error
    [] severity = "MEDIUM" -> Warning
    [] severity = "LOW" -> Information
    [] OTHER -> Information

createDiagnostic(range, message, severity) ==
  [range |-> range, message |-> message, severity |-> severity, source |-> "MARSA11Y Checker"]

\* a loop body that concatenates the form family ahead of the image family
allIssues_formFirst(line, lineNumber, text) ==
  checkFormElements(line, lineNumber)
    \o checkImages(line, lineNumber)
    \o checkOtherAccessibility(line, lineNumber, text)
    \o checkAriaLabelAndRole(line, lineNumber, text)
    \o checkTabIndex(line, lineNumber)
    \o checkSemanticHtml(line, lineNumber, text)

\* allIssues of the loop body: the six family runners the aggregator calls, in its order
allIssues(line, lineNumber, text) ==
  checkImages(line, lineNumber)
    \o checkFormElements(line, lineNumber)
    \o checkOtherAccessibility(line, lineNumber, text)
    \o checkAriaLabelAndRole(line, lineNumber, text)
    \o checkTabIndex(line, lineNumber)
    \o checkSemanticHtml(line, lineNumber, text)

\* lines.forEach((line, index) => ...) from index on: the issues pushed, in push order
RECURSIVE forEachLine(_, _, _)
forEachLine(lines, index, text) ==
  IF index >= Len(lines) THEN <<>>
  ELSE allIssues(lines[index + 1], index, text) \o forEachLine(lines, index + 1, text)

\* a collection that ignores an empty array instead of clearing the stored set
setDiagnostics_keepOnEmpty(stored, diagnostics) ==
  IF diagnostics = <<>> THEN stored ELSE diagnostics

\* diagnosticCollection.set(uri, diagnostics): the stored set after the call,
\* given the one stored before
setDiagnostics(stored, diagnostics) == diagnostics

\* the loop over allIssues: one diagnostic pushed per issue, in the issues' order
forEachIssue(found) ==
  [issues |-> found,
   diagnostics |-> [k \in 1..Len(found) |->
                      createDiagnostic(found[k].range, found[k].issue, getSeverity(found[k].severity))]]

\* one run of checkAccessibilityIssues over the text the document has:
\* the issues array it logs and the diagnostics array it publishes
checkAccessibilityIssues(text) == forEachIssue(forEachLine(split(text), 0, text))

(***************************************************************************)
(* AltTagAutoFixer: the pure parts of the repair workflow.                 *)
(***************************************************************************)
\* lines.join('\n')
RECURSIVE join(_)
join(lines) ==
  IF Len(lines) = 0 THEN ""
  ELSE IF Len(lines) = 1 THEN lines[1]
  ELSE lines[1] \o "\n" \o join(Tail(lines))

\* start indices p at which  src=["']([^"']+)["'][^>]*>  matches, reached from
\* the <img at i through [^>]*  (the pattern carries the flag i)
srcHits(s, i) ==
  {p \in (i + 4)..(Len(s) - 5) :
     /\ indexOf(substring(s, i + 4, p), ">", 0) = -1
     /\ toLowerCase(substring(s, p, p + 4)) = "src="
     /\ charAt(s, p + 4) \in Quotes
     /\ firstOf(s, Quotes, p + 5) > p + 5
     /\ indexOf(s, ">", firstOf(s, Quotes, p + 5) + 1) # -1}

\* s.match(/<img[^>]*src=["']([^"']+)["'][^>]*>/i): <<group 1>> of the leftmost
\* match, in which the greedy [^>]* settles on the last src= it can, or NoMatch
imgTagMatch(s) ==
  LET starts == {i \in 0..(Len(s) - 4) :
                   toLowerCase(substring(s, i, i + 4)) = "<img" /\ srcHits(s, i) # {}}
  IN IF starts = {} THEN NoMatch
     ELSE LET p == Max(srcHits(s, Min(starts)))
          IN <<substring(s, p + 5, firstOf(s, Quotes, p + 5))>>

\* a test that looks for the element only
fixable_ignoringAlt(trimmedLine) == includes(trimmedLine, "<img")

\* the test the four workflow functions make before anything else:
\* trimmedLine.includes('<img') && !trimmedLine.includes('alt=')
fixable(trimmedLine) == includes(trimmedLine, "<img") /\ ~includes(trimmedLine, "alt=")

\* the function gets as far as calling generateAltText for the line
reachesGenerateAltText(line) == fixable(trim(line)) /\ imgTagMatch(trim(line)) # NoMatch

\* what the awaited chat.completions.create can do: raise, or resolve to a
\* completion whose choices[0]?.message?.content is missing (<<>>) or a string
Responses ==
  {[raises |-> TRUE, content |-> <<>>]}
    \cup {[raises |-> FALSE, content |-> c] : c \in {<<>>, <<"">>, <<"  ">>, <<" Cat ">>, <<"Dog">>}}

\* the AltFixResult of generateAltText when initializeOpenAI returned false
notInitialized == [success |-> FALSE, altText |-> "", error |-> "OpenAI not initialized"]

\* a generateAltText that hands on whatever content the completion carries
altFixResult_contentAsIs(response) ==
  IF response.raises
  THEN [success |-> FALSE, altText |-> "", error |-> "OpenAI API error: Error"]
  ELSE [success |-> TRUE, altText |-> IF response.content = <<>> THEN "" ELSE response.content[1],
        error |-> ""]

\* the AltFixResult of generateAltText once the awaited call has settled;
\* an absent altText is ""
altFixResult(response) ==
  IF response.raises
  THEN [success |-> FALSE, altText |-> "", error |-> "OpenAI API error: Error"]
  ELSE LET altText == IF response.content = <<>> THEN "" ELSE trim(response.content[1])
       IN IF altText = ""
          THEN [success |-> FALSE, altText |-> "", error |-> "No alt text generated"]
          ELSE [success |-> TRUE, altText |-> altText, error |-> ""]

\* a fix that writes the generated text into a title attribute
insertAlt_asTitle(line, altText) ==
  LET imgTagStart == indexOf(line, "<img", 0)
      imgTagEnd == indexOf(line, ">", imgTagStart)
  IN IF imgTagStart = -1 \/ imgTagEnd = -1 THEN <<>>
     ELSE <<substring(line, 0, imgTagEnd) \o " title=\"" \o altText \o "\""
              \o substring(line, imgTagEnd, Len(line))>>

\* beforeAlt + ` alt="${altText}"` + afterAlt: <<newLine>>, or <<>> when the
\* line has no <img or no > after it
insertAlt(line, altText) ==
  LET imgTagStart == indexOf(line, "<img", 0)
      imgTagEnd == indexOf(line, ">", imgTagStart)
  IN IF imgTagStart = -1 \/ imgTagEnd = -1 THEN <<>>
     ELSE <<substring(line, 0, imgTagEnd) \o " alt=\"" \o altText \o "\""
              \o substring(line, imgTagEnd, Len(line))>>

\* lines of the documents the repair workflow runs on
RepairLines ==
  {"  <img src='y.png'> <b>t</b>",
   "<img src=\"x.png\" title=\"a>b\">",
   "<img src=\"a.png\" alt=\"A\">",
   "<p>hi</p>",
   "<img>"}

\* the lines of RepairLines after a repair
RepairedLines ==
  UNION {{insertAlt(l, altFixResult(r).altText)[1] : r \in {x \in Responses : altFixResult(x).success}} :
           l \in {x \in RepairLines : reachesGenerateAltText(x)}}

\* reachesGenerateAltText tabulated once over those lines
GeneratesTable == [l \in RepairLines \cup RepairedLines |-> reachesGenerateAltText(l)]

\* reachesGenerateAltText(line), looked up where it is tabulated
generates(line) ==
  IF line \in DOMAIN GeneratesTable THEN GeneratesTable[line] ELSE reachesGenerateAltText(line)

\* fix functions that insert an empty alt attribute when generation failed
replacement_emptyOnFailure(lineNumber, lineText, result) ==
  LET newLine == insertAlt(lineText, IF result.success THEN result.altText ELSE "")
  IN IF newLine = <<>> THEN <<>>
     ELSE <<[range |-> Range(lineNumber, 0, lineNumber, Len(lineText)), newText |-> newLine[1]]>>

\* the replacements the fix functions add for one line once generateAltText
\* has returned result: none (<<>>), or one replacement of the whole line
replacement(lineNumber, lineText, result) ==
  IF ~result.success \/ result.altText = "" THEN <<>>
  ELSE LET newLine == insertAlt(lineText, result.altText)
       IN IF newLine = <<>> THEN <<>>
          ELSE <<[range |-> Range(lineNumber, 0, lineNumber, Len(lineText)), newText |-> newLine[1]]>>

\* the previews the preview functions add for one line: none, or one
previewOf(lineNumber, line, result) ==
  IF ~result.success \/ result.altText = "" THEN <<>>
  ELSE <<[lineNumber |-> lineNumber, imageSrc |-> imgTagMatch(trim(line))[1], altText |-> result.altText]>>

\* the first index at or after i of a line the loop calls generateAltText for,
\* Len(lines) if there is none
RECURSIVE nextGenerated(_, _)
nextGenerated(lines, i) ==
  IF i >= Len(lines) THEN Len(lines)
  ELSE IF generates(lines[i + 1]) THEN i ELSE nextGenerated(lines, i + 1)

\* the indices at or after i of the lines the loop calls generateAltText for
generatedFrom(lines, i) == {j \in i..(Len(lines) - 1) : generates(lines[j + 1])}

\* the edit the loop of autoFixMissingAltTags builds from line i on when every
\* generateAltText call returns result at once
RECURSIVE replacementsFrom(_, _, _)
replacementsFrom(lines, i, result) ==
  IF i >= Len(lines) THEN <<>>
  ELSE (IF generates(lines[i + 1]) THEN replacement(i, lines[i + 1], result) ELSE <<>>)
         \o replacementsFrom(lines, i + 1, result)

\* the previews the loop of getMissingAltTagsPreview builds in that case
RECURSIVE previewsFrom(_, _, _)
previewsFrom(lines, i, result) ==
  IF i >= Len(lines) THEN <<>>
  ELSE (IF generates(lines[i + 1]) THEN previewOf(i, lines[i + 1], result) ELSE <<>>)
         \o previewsFrom(lines, i + 1, result)

\* one line of the document after a replacement whose range the host has
\* clamped to the line: the replaced span gives way to newText
replaceIn(line, r) ==
  r.newText \o substring(line, Min({r.range.endCharacter, Len(line)}), Len(line))

\* vscode.workspace.applyEdit(edit) on a document with this text: every
\* replacement acts on the line its range names; a range past the last line
\* is clamped to the end of the document
applyEdit(text, edit) ==
  LET lines == split(text)
      onLine(k) == {n \in 1..Len(edit) : edit[n].range.startLine = k - 1}
      past == {n \in 1..Len(edit) : edit[n].range.startLine >= Len(lines)}
      RECURSIVE appended(_)
      appended(n) ==
        IF n > Len(edit) THEN ""
        ELSE (IF n \in past THEN edit[n].newText ELSE "") \o appended(n + 1)
      newLines == [k \in 1..Len(lines) |->
                     (IF onLine(k) = {} THEN lines[k] ELSE replaceIn(lines[k], edit[Min(onLine(k))]))
                       \o (IF k = Len(lines) THEN appended(1) ELSE "")]
  IN join(newLines)

(***************************************************************************)
(* State.                                                                  *)
(***************************************************************************)
VARIABLES
  fileName,      \* document.fileName
  docText,       \* document.getText(): the text the host holds for the document
  diagnostics,   \* the diagnostic set stored for the document in diagnosticCollection
  issues,        \* the issues array the latest analysis pass logged
  passes,        \* analysis passes started so far, counted up to PassesCap
  lastFault,     \* {line index} at which the latest pass raised, NoFault if it did not
  escaped,       \* an exception left checkAccessibilityIssues in the latest pass
  superseded,    \* the latest pass replaced a stored set that was not empty
  repeated,      \* the latest change event left the text as an earlier pass read it
  severities,    \* severity strings handed to the classifier
  levels,        \* the levels getSeverity returned for them
  openai,        \* AltTagAutoFixer.openai: TRUE once the client exists
  apiKey,        \* the setting marsa11yfix.openaiApiKey, "" when it is not set
  frame,         \* the locals of the workflow function in progress or last run, its position,
                 \* and (key) the setting's value when its latest generateAltText call began
  generated,     \* indices of the lines the current function call has called generateAltText for
  failed,        \* those of them for which generateAltText returned no alt text
  lastResult,    \* the AltFixResult of the latest generateAltText call that returned
  lastResponse,  \* <<response>> of the service in that call, <<>> if it was not reached
  lastCause,     \* how that call ended: "noCredential", "constructorFailed", "settled",
                 \* "settledWithoutCredential" (the setting was empty when the call began); "none" before any
  applied,       \* the current command or call has applied an edit
  before         \* the document text when the current command or call started

docVars == <<fileName, docText, diagnostics, issues, passes, lastFault, escaped, superseded, repeated>>

classVars == <<severities, levels>>

repairVars == <<openai, apiKey, frame, generated, failed, lastResult, lastResponse, lastCause, applied, before>>

vars == <<docVars, classVars, repairVars>>

(***************************************************************************)
(* Bounds and inputs.                                                      *)
(***************************************************************************)
\* most lines a document has
MaxLines == 2

\* the pass counter stops counting here
PassesCap == 2

\* most severity strings classified in one go
MaxSeverities == 4

\* the lines at which a pattern match raises in a pass in which none does
NoFault == {}

FileNames == {"index.html", "page.htm", "notes.txt"}

\* lines the user types in the analysis model
AnalysisLines ==
  {"",
   "<img src=\"x.png\">",
   "  <input type=\"text\" alt=\"\">",
   "<div role=\"button\" onclick=\"f()\" tabindex=\"5\">X</div>",
   "<button onclick=\"f()\"></button>",
   "<h1>Title</h1>",
   "<html>",
   "<p style=\"color: red\">Hi</p>"}

\* lines the user types in the detector model, in pools by what they are
\* about: images with and without alt; buttons with and without text and
\* aria-label; elements with roles and tabindex values; id references and
\* their targets; headings; style rules; blank and broken lines
DetectPools ==
  {{"<img src=\"x.png\">",
    "  <img src='y.png' class=\"c\">",
    "<img src=\"x.png\" alt=\"\">",
    "<img src='x.png' alt=''>"},
   {"<button onclick=\"f()\">Click me</button>",
    "<button onclick=\"f()\"></button>",
    "<button aria-label=\"\">Click me</button>",
    "<button aria-label=\"button\">Submit</button>",
    "<button aria-label=\"Submit the form\">Submit</button>",
    "<button></button>",
    "<a href=\"#\"></a>"},
   {"<div role=\"button\" onclick=\"f()\" tabindex=\"5\">X</div>",
    "<div role=\"button\" onclick=\"f()\">X</div>",
    "<span role=\"link\">X</span>",
    "<button tabindex=\"-1\">Click me</button>",
    "<button tabindex=\"5\">Button</button>"},
   {"<input id=\"q\" aria-labelledby=\"a b\">",
    "<b id=\"a\">A</b><b id=\"b\">B</b>",
    "<input id=\"r\" aria-describedby=\"h\">",
    "<p id=\"h\">Help</p>"},
   {"<h1 class=\"t\">A</h1>",
    "<h1>B</h1>",
    "<h2>C</h2>",
    "<h3>D</h3>",
    "<h1>Main</h1><h3>Sub</h3>"},
   {"a:focus { outline: none; }",
    "a:focus { outline: 0; }",
    "a:hover { color: red; }"},
   {"",
    "   ",
    "<img src=\"a",
    "<button aria-label='x>t</button"}}

\* values of the setting marsa11yfix.openaiApiKey
ApiKeys == {"", "sk-test"}

\* severity strings: the three of the enum and values outside it
SeverityInputs == {"HIGH", "MEDIUM", "LOW", "CRITICAL", "high", ""}

\* documents of at most n lines over the pool
Documents(pool, n) == UNION {{join(ls) : ls \in [1..k -> pool]} : k \in 1..n}

\* documents of at most n lines of the detector model, each about one thing
DetectDocuments(n) == UNION {Documents(pool, n) : pool \in DetectPools}

\* the texts one edit of the user can turn text into: a line replaced, inserted
\* or removed, or a change event that leaves the text as it is
Edits(text, pool, n) ==
  LET ls == split(text)
      replaced == {join([ls EXCEPT ![k] = l]) : k \in 1..Len(ls), l \in pool}
      inserted == IF Len(ls) < n
                  THEN {join(SubSeq(ls, 1, k) \o <<l>> \o SubSeq(ls, k + 1, Len(ls))) :
                          k \in 0..Len(ls), l \in pool}
                  ELSE {}
      removed == IF Len(ls) > 1
                 THEN {join(SubSeq(ls, 1, k - 1) \o SubSeq(ls, k + 1, Len(ls))) : k \in 1..Len(ls)}
                 ELSE {}
  IN {text} \cup replaced \cup inserted \cup removed

isHtml(name) == endsWith(name, ".html") \/ endsWith(name, ".htm")

(***************************************************************************)
(* The change handler and the analysis pass.                               *)
(***************************************************************************)
\* checkAccessibilityIssues tabulated once over the documents of the analysis
\* model, of the detector model and of the repair workflow (before and after
\* repairs), so that a pass on one of them is a lookup
PassTable ==
  [t \in Documents(AnalysisLines, MaxLines) \cup DetectDocuments(MaxLines)
          \cup Documents(RepairLines \cup RepairedLines, MaxLines) |->
     checkAccessibilityIssues(t)]

\* table[text] where text is tabulated, direct elsewhere
tabulated(table, text, direct) == IF text \in DOMAIN table THEN table[text] ELSE direct

\* the arrays one call of checkAccessibilityIssues on text builds
pass(text) == tabulated(PassTable, text, checkAccessibilityIssues(text))

\* a listener whose issues array outlives the call and is appended to by every pass
htmlFileWatcher_accumulating(text, fault) ==
  IF ~isHtml(fileName)
  THEN UNCHANGED <<diagnostics, issues, passes, lastFault, escaped, superseded>>
  ELSE /\ passes' = IF passes < PassesCap THEN passes + 1 ELSE passes
       /\ lastFault' = fault
       /\ escaped' = FALSE
       /\ superseded' = (diagnostics # <<>>)
       /\ issues' = issues \o pass(text).issues
       /\ diagnostics' = [k \in 1..Len(issues') |->
                           createDiagnostic(issues'[k].range, issues'[k].issue, getSeverity(issues'[k].severity))]

\* htmlFileWatcher: the onDidChangeTextDocument listener, run on the document
\* as it is after the change.  fault holds the line at which a detector's
\* pattern match raises in this pass (NoFault: none does).  Nothing in the
\* aggregator or the family runners catches, so the exception leaves
\* checkAccessibilityIssues before diagnosticCollection.set is reached.
htmlFileWatcher(text, fault) ==
  IF ~isHtml(fileName)
  THEN UNCHANGED <<diagnostics, issues, passes, lastFault, escaped, superseded>>
  ELSE /\ passes' = IF passes < PassesCap THEN passes + 1 ELSE passes
       /\ lastFault' = fault
       /\ IF fault # NoFault
          THEN /\ escaped' = TRUE
               /\ superseded' = FALSE
               /\ UNCHANGED <<diagnostics, issues>>
          ELSE /\ escaped' = FALSE
               /\ superseded' = (diagnostics # <<>>)
               /\ diagnostics' = setDiagnostics(diagnostics, pass(text).diagnostics)
               /\ issues' = pass(text).issues

\* the document text becomes t and the host fires onDidChangeTextDocument
didChangeTextDocument(t, fault) ==
  /\ docText' = t
  /\ UNCHANGED fileName
  /\ repeated' = (isHtml(fileName) /\ passes > 0 /\ ~escaped /\ t = docText)
  /\ htmlFileWatcher(t, fault)

\* the user edits the document into t
ChangeDocument(t, fault) ==
  /\ didChangeTextDocument(t, fault)
  /\ UNCHANGED <<classVars, repairVars>>

\* the host opens the document name with text t.  activate subscribes only
\* to onDidChangeTextDocument: no listener runs when a document is opened
OpenDocument(name, t) ==
  /\ fileName' = name
  /\ docText' = t
  /\ UNCHANGED <<diagnostics, issues, passes, lastFault, escaped, superseded, repeated>>
  /\ UNCHANGED <<classVars, repairVars>>

\* allIssues.forEach(issue => diagnostics.push(createDiagnostic(..., getSeverity(issue.severity))))
\* on issues whose severity strings are severities
Classify ==
  /\ levels' = [k \in 1..Len(severities) |-> getSeverity(severities[k])]
  /\ UNCHANGED <<severities, docVars, repairVars>>

(***************************************************************************)
(* The repair workflow.  A step runs the code from one await to the next:  *)
(* the awaits are the call of the generation service and the confirmation  *)
(* dialog; applyEdit acts on the text the document has when it is called.  *)
(***************************************************************************)
\* the frame when no workflow function has been called
IdleFrame ==
  [flow |-> "idle", pc |-> "idle", call |-> "none", lineNumber |-> 0, lineText |-> "",
   lines |-> <<>>, i |-> 0, preview |-> <<>>, previews |-> <<>>, edit |-> <<>>, key |-> ""]

\* an initializeOpenAI that reads the setting on every call and builds a
\* client from it each time
initializeOpenAI_everyCall(client, key, ctorThrows) ==
  IF key = "" THEN FALSE
  ELSE ~ctorThrows

\* initializeOpenAI: its return value, which is also whether a client exists
\* afterwards; ctorThrows says whether new OpenAI(...) raises
initializeOpenAI(client, key, ctorThrows) ==
  IF client THEN TRUE
  ELSE IF key = "" THEN FALSE
  ELSE ~ctorThrows

\* generateAltText up to its await, called for the lines gens (one line for
\* the single-image functions; for a loop, every line it would call it for):
\* with a client the first call awaits the service; without one every call
\* returns notInitialized at once
enterGenerate(gens, ctorThrows) ==
  LET init == initializeOpenAI(openai, apiKey, ctorThrows)
  IN /\ openai' = IF gens = {} THEN openai ELSE init
     /\ generated' = IF gens = {} THEN {} ELSE IF init THEN {Min(gens)} ELSE gens
     /\ failed' = IF gens # {} /\ ~init THEN gens ELSE {}
     /\ lastResult' = IF gens # {} /\ ~init THEN notInitialized ELSE lastResult
     /\ lastResponse' = IF gens # {} /\ ~init THEN <<>> ELSE lastResponse
     /\ lastCause' = IF gens # {} /\ ~init
                     THEN (IF apiKey = "" THEN "noCredential" ELSE "constructorFailed")
                     ELSE lastCause

\* the position after enterGenerate: awaiting the service, or returned
pcAfterEnter(gens, ctorThrows) ==
  IF gens # {} /\ initializeOpenAI(openai, apiKey, ctorThrows) THEN "generating" ELSE "idle"

\* vscode.workspace.applyEdit(edit) and the change event it fires
applyAndNotify(edit) ==
  /\ applied' = TRUE
  /\ didChangeTextDocument(applyEdit(docText, edit), NoFault)

\* getSpecificImagePreview or fixSpecificImageTag entered for the line n of the document
enterSpecific(flow, call, n, lt, ctorThrows) ==
  LET gens == IF generates(lt) THEN {n} ELSE {}
  IN /\ frame' = [IdleFrame EXCEPT !.flow = flow, !.call = call, !.lineNumber = n, !.lineText = lt,
                                   !.preview = IF flow = "single" /\ call = "fixSpecificImageTag"
                                               THEN frame.preview ELSE <<>>,
                                   !.edit = IF call = "fixSpecificImageTag" /\ gens # {}
                                               /\ pcAfterEnter(gens, ctorThrows) = "idle"
                                            THEN replacement(n, lt, notInitialized) ELSE <<>>,
                                   !.key = apiKey,
                                   !.pc = pcAfterEnter(gens, ctorThrows)]
     /\ enterGenerate(gens, ctorThrows)

\* getMissingAltTagsPreview or autoFixMissingAltTags entered for the document
enterBulk(flow, call, ctorThrows) ==
  LET ls == split(docText)
      gens == generatedFrom(ls, 0)
      returned == pcAfterEnter(gens, ctorThrows) = "idle"
  IN /\ frame' = [IdleFrame EXCEPT !.flow = flow, !.call = call, !.lines = ls,
                                   !.i = IF gens = {} \/ returned THEN Len(ls) ELSE Min(gens),
                                   !.previews = IF call = "autoFixMissingAltTags"
                                                THEN (IF flow = "bulk" THEN frame.previews ELSE <<>>)
                                                ELSE IF returned THEN previewsFrom(ls, 0, notInitialized)
                                                ELSE <<>>,
                                   !.edit = IF call = "autoFixMissingAltTags" /\ returned
                                            THEN replacementsFrom(ls, 0, notInitialized) ELSE <<>>,
                                   !.key = apiKey,
                                   !.pc = pcAfterEnter(gens, ctorThrows)]
     /\ enterGenerate(gens, ctorThrows)

\* a caller other than the commands calls one of the single-image functions
CallSpecific(call, n, ctorThrows) ==
  /\ frame.pc = "idle"
  /\ n \in 0..(Len(split(docText)) - 1)
  /\ enterSpecific("direct", call, n, split(docText)[n + 1], ctorThrows)
  /\ applied' = FALSE
  /\ before' = docText
  /\ UNCHANGED <<docVars, classVars, apiKey>>

\* a caller other than the commands calls one of the whole-document functions
CallBulk(call, ctorThrows) ==
  /\ frame.pc = "idle"
  /\ enterBulk("direct", call, ctorThrows)
  /\ applied' = FALSE
  /\ before' = docText
  /\ UNCHANGED <<docVars, classVars, apiKey>>

\* the command marsa11yfix.autoFixCurrentImage with the cursor on line n:
\* ImageChecker.autoFixSpecificImage up to its first await
CmdAutoFixCurrentImage(n, ctorThrows) ==
  /\ frame.pc = "idle"
  /\ isHtml(fileName)
  /\ n \in 0..(Len(split(docText)) - 1)
  /\ LET lineText == split(docText)[n + 1]
     IN IF ~fixable(trim(lineText))
        THEN /\ frame' = [IdleFrame EXCEPT !.flow = "single", !.lineNumber = n, !.lineText = lineText]
             /\ generated' = {}
             /\ failed' = {}
             /\ UNCHANGED <<openai, lastResult, lastResponse, lastCause>>
        ELSE enterSpecific("single", "getSpecificImagePreview", n, lineText, ctorThrows)
  /\ applied' = FALSE
  /\ before' = docText
  /\ UNCHANGED <<docVars, classVars, apiKey>>

\* the command marsa11yfix.autoFixAltTags: ImageChecker.autoFixMissingAltTags
\* up to its first await
CmdAutoFixAltTags(ctorThrows) ==
  /\ frame.pc = "idle"
  /\ isHtml(fileName)
  /\ LET lines == split(docText)
         missingAltCount == Cardinality({k \in 1..Len(lines) : fixable(trim(lines[k]))})
     IN IF missingAltCount = 0
        THEN /\ frame' = [IdleFrame EXCEPT !.flow = "bulk"]
             /\ generated' = {}
             /\ failed' = {}
             /\ UNCHANGED <<openai, lastResult, lastResponse, lastCause>>
        ELSE enterBulk("bulk", "getMissingAltTagsPreview", ctorThrows)
  /\ applied' = FALSE
  /\ before' = docText
  /\ UNCHANGED <<docVars, classVars, apiKey>>

\* the awaited service call settles with response r: generateAltText returns,
\* and the function that called it runs on to its next await or to its end,
\* and so does the command that called the function
ServiceResponds(r) ==
  /\ frame.pc = "generating"
  /\ LET result == altFixResult(r)
         good == result.success /\ result.altText # ""
         n == IF frame.call \in {"getSpecificImagePreview", "fixSpecificImageTag"}
              THEN frame.lineNumber ELSE frame.i
         line == IF frame.call \in {"getSpecificImagePreview", "fixSpecificImageTag"}
                 THEN frame.lineText ELSE frame.lines[frame.i + 1]
         j == nextGenerated(frame.lines, frame.i + 1)
         more == frame.call \in {"getMissingAltTagsPreview", "autoFixMissingAltTags"}
                 /\ j < Len(frame.lines)
         preview == IF good THEN <<[imageSrc |-> imgTagMatch(trim(line))[1], altText |-> result.altText]>>
                    ELSE <<>>
         previews == frame.previews \o previewOf(n, line, result)
         edit == frame.edit \o replacement(n, line, result)
     IN /\ lastResult' = result
        /\ lastResponse' = <<r>>
        /\ lastCause' = IF frame.key = "" THEN "settledWithoutCredential" ELSE "settled"
        /\ failed' = IF good THEN failed ELSE failed \cup {n}
        /\ generated' = IF more THEN generated \cup {j} ELSE generated
        /\ CASE frame.call = "getSpecificImagePreview" ->
                  /\ frame' = [frame EXCEPT !.preview = preview,
                                            !.pc = IF frame.flow = "single" /\ preview # <<>>
                                                   THEN "confirm" ELSE "idle"]
                  /\ UNCHANGED <<docVars, applied>>
             [] frame.call = "fixSpecificImageTag" ->
                  /\ frame' = [frame EXCEPT !.edit = edit, !.pc = "idle"]
                  /\ IF frame.flow = "single" /\ edit # <<>>
                     THEN applyAndNotify(edit)
                     ELSE UNCHANGED <<docVars, applied>>
             [] frame.call = "getMissingAltTagsPreview" ->
                  /\ frame' = [frame EXCEPT !.previews = previews,
                                            !.i = j,
                                            !.key = IF more THEN apiKey ELSE frame.key,
                                            !.pc = IF more THEN "generating"
                                                   ELSE IF frame.flow = "bulk" /\ previews # <<>>
                                                   THEN "confirm" ELSE "idle"]
                  /\ UNCHANGED <<docVars, applied>>
             [] frame.call = "autoFixMissingAltTags" ->
                  /\ frame' = [frame EXCEPT !.edit = edit,
                                            !.i = j,
                                            !.key = IF more THEN apiKey ELSE frame.key,
                                            !.pc = IF more THEN "generating" ELSE "idle"]
                  /\ IF ~more /\ frame.flow = "bulk" /\ edit # <<>>
                     THEN applyAndNotify(edit)
                     ELSE UNCHANGED <<docVars, applied>>
  /\ UNCHANGED <<classVars, openai, apiKey, before>>

\* the user answers the confirmation dialog of a command; "" is the dialog dismissed
UserChooses(userChoice, ctorThrows) ==
  /\ frame.pc = "confirm"
  /\ IF userChoice # "Yes, Apply Fix"
     THEN /\ frame' = [frame EXCEPT !.pc = "idle"]
          /\ UNCHANGED <<openai, generated, failed, lastResult, lastResponse, lastCause>>
     ELSE IF frame.flow = "single"
     THEN enterSpecific("single", "fixSpecificImageTag", frame.lineNumber, frame.lineText, ctorThrows)
     ELSE enterBulk("bulk", "autoFixMissingAltTags", ctorThrows)
  /\ UNCHANGED <<docVars, classVars, apiKey, applied, before>>

\* the user sets marsa11yfix.openaiApiKey
ConfigureApiKey(key) ==
  /\ key # apiKey
  /\ apiKey' = key
  /\ UNCHANGED <<docVars, classVars, openai, frame, generated, failed, lastResult, lastResponse,
                 lastCause, applied, before>>

(***************************************************************************)
(* Specifications.                                                         *)
(***************************************************************************)
\* a document is open with some text; no pass has run
InitDoc(pool, n) ==
  /\ fileName \in FileNames
  /\ docText \in Documents(pool, n)
  /\ diagnostics = <<>>
  /\ issues = <<>>
  /\ passes = 0
  /\ lastFault = NoFault
  /\ escaped = FALSE
  /\ superseded = FALSE
  /\ repeated = FALSE

InitClass ==
  /\ severities = <<>>
  /\ levels = <<>>

\* no client, no workflow function called yet
InitRepair ==
  /\ openai = FALSE
  /\ frame = IdleFrame
  /\ generated = {}
  /\ failed = {}
  /\ lastResult = [success |-> FALSE, altText |-> "", error |-> ""]
  /\ lastResponse = <<>>
  /\ lastCause = "none"
  /\ applied = FALSE
  /\ before = ""

\* the analysis engine under user edits
Init == InitDoc(AnalysisLines, MaxLines) /\ InitClass /\ InitRepair /\ apiKey = ""

Next == \E t \in Edits(docText, AnalysisLines, MaxLines) : ChangeDocument(t, NoFault)

Spec == Init /\ [][Next]_vars

\* the analysis engine when a pattern match can raise
NextFault ==
  \E t \in Edits(docText, AnalysisLines, MaxLines) :
    \E fault \in {NoFault} \cup {{n} : n \in 0..(Len(split(t)) - 1)} : ChangeDocument(t, fault)

SpecFault == Init /\ [][NextFault]_vars

\* the severity classifier on arbitrary severity strings
InitClassify ==
  /\ fileName = "index.html"
  /\ docText = ""
  /\ diagnostics = <<>>
  /\ issues = <<>>
  /\ passes = 0
  /\ lastFault = NoFault
  /\ escaped = FALSE
  /\ superseded = FALSE
  /\ repeated = FALSE
  /\ severities \in UNION {[1..n -> SeverityInputs] : n \in 1..MaxSeverities}
  /\ levels = <<>>
  /\ InitRepair
  /\ apiKey = ""

NextClassify == Classify

SpecClassify == InitClassify /\ [][NextClassify]_vars

\* the repair workflow on an HTML document: the commands, direct calls of the
\* workflow functions, the service, the user at the dialog and at the settings
InitRepairFlow ==
  /\ InitDoc(RepairLines, MaxLines)
  /\ fileName = "index.html"
  /\ InitClass
  /\ InitRepair
  /\ apiKey \in ApiKeys

NextRepair ==
  \/ \E call \in {"getSpecificImagePreview", "fixSpecificImageTag"} :
       \E n \in 0..(MaxLines - 1) : \E ctorThrows \in BOOLEAN : CallSpecific(call, n, ctorThrows)
  \/ \E call \in {"getMissingAltTagsPreview", "autoFixMissingAltTags"} :
       \E ctorThrows \in BOOLEAN : CallBulk(call, ctorThrows)
  \/ \E n \in 0..(MaxLines - 1) : \E ctorThrows \in BOOLEAN : CmdAutoFixCurrentImage(n, ctorThrows)
  \/ \E ctorThrows \in BOOLEAN : CmdAutoFixAltTags(ctorThrows)
  \/ \E r \in Responses : ServiceResponds(r)
  \/ \E userChoice \in {"Yes, Apply Fix", "Cancel", ""} : \E ctorThrows \in BOOLEAN :
       UserChooses(userChoice, ctorThrows)
  \/ \E key \in ApiKeys : ConfigureApiKey(key)

SpecRepair == InitRepairFlow /\ [][NextRepair]_vars

\* the detectors on an HTML document of lines each of which sets off some of them
InitDetect ==
  /\ \E pool \in DetectPools : InitDoc(pool, MaxLines)
  /\ fileName = "index.html"
  /\ InitClass
  /\ InitRepair
  /\ apiKey = ""

NextDetect ==
  \E pool \in DetectPools :
    /\ docText \in Documents(pool, MaxLines)
    /\ \E t \in Edits(docText, pool, MaxLines) : ChangeDocument(t, NoFault)

SpecDetect == InitDetect /\ [][NextDetect]_vars

\* the analysis engine from before the document is opened: the host opens
\* it, then the user edits it
InitOpen ==
  /\ fileName = ""
  /\ docText = ""
  /\ diagnostics = <<>>
  /\ issues = <<>>
  /\ passes = 0
  /\ lastFault = NoFault
  /\ escaped = FALSE
  /\ superseded = FALSE
  /\ repeated = FALSE
  /\ InitClass
  /\ InitRepair
  /\ apiKey = ""

NextOpen ==
  \/ /\ fileName = ""
     /\ \E name \in FileNames : \E t \in Documents(AnalysisLines, MaxLines) : OpenDocument(name, t)
  \/ /\ fileName # ""
     /\ \E t \in Edits(docText, AnalysisLines, MaxLines) : ChangeDocument(t, NoFault)

SpecOpen == InitOpen /\ [][NextOpen]_vars

\* the single-image command while the user goes on editing the document,
\* with the credential set: the awaits of the command let change events in,
\* here one per command
InitRepairEdit == InitRepairFlow /\ apiKey # ""

NextRepairEdit ==
  \/ \E n \in 0..(MaxLines - 1) : \E ctorThrows \in BOOLEAN : CmdAutoFixCurrentImage(n, ctorThrows)
  \/ \E r \in Responses : ServiceResponds(r)
  \/ \E userChoice \in {"Yes, Apply Fix", "Cancel", ""} : \E ctorThrows \in BOOLEAN :
       UserChooses(userChoice, ctorThrows)
  \/ /\ frame.pc \in {"generating", "confirm"}
     /\ docText = before
     /\ \E t \in Edits(docText, RepairLines, MaxLines) : ChangeDocument(t, NoFault)

SpecRepairEdit == InitRepairEdit /\ [][NextRepairEdit]_vars

(***************************************************************************)
(* Properties of the analysis engine.                                      *)
(***************************************************************************)
\* C1: the published diagnostics follow the issues in push order, one for one,
\* and the issues are ordered by line index ascending, within one line by the
\* family order image, form, other, ARIA/role, tab-index, semantic, and within
\* one family by the position of the detector in the family's checks list
C1_Ordered ==
  /\ FamImage < FamForm /\ FamForm < FamOther /\ FamOther < FamAria
  /\ FamAria < FamTabIndex /\ FamTabIndex < FamSemantic
  /\ Len(diagnostics) = Len(issues)
  /\ \A k \in 1..Len(issues) :
       /\ diagnostics[k].range = issues[k].range
       /\ diagnostics[k].message = issues[k].issue
       /\ issues[k].family \in FamImage..FamSemantic
       /\ issues[k].line = issues[k].range.startLine + 1
  /\ \A j, k \in 1..Len(issues) :
       j < k =>
         LET a == issues[j]
             b == issues[k]
         IN \/ a.range.startLine < b.range.startLine
            \/ /\ a.range.startLine = b.range.startLine
               /\ \/ a.family < b.family
                  \/ a.family = b.family /\ a.check < b.check

\* a pass published issues of two lines, of two families on one line and of
\* two detectors of one family on one line
C1_Witness ==
  /\ passes > 0
  /\ Len(diagnostics) = Len(issues)
  /\ \E j, k \in 1..Len(issues) : issues[j].range.startLine # issues[k].range.startLine
  /\ \E j, k \in 1..Len(issues) :
       /\ issues[j].range.startLine = issues[k].range.startLine
       /\ issues[j].family # issues[k].family
  /\ \E j, k \in 1..Len(issues) :
       /\ issues[j].range.startLine = issues[k].range.startLine
       /\ issues[j].family = issues[k].family
       /\ issues[j].check # issues[k].check

\* C2: once a pass has run on an HTML document, the stored diagnostic set is
\* exactly what the latest pass computed from the text it read, which is the
\* text the document has: nothing of an earlier pass remains, and the set is
\* empty when that text has no issues; a document that is not HTML never gets
\* diagnostics
C2_LatestPassOnly ==
  /\ (isHtml(fileName) /\ passes > 0) =>
       /\ diagnostics = pass(docText).diagnostics
       /\ issues = pass(docText).issues
       /\ (pass(docText).issues = <<>> => diagnostics = <<>>)
  /\ (~isHtml(fileName) \/ passes = 0) => diagnostics = <<>>

\* a second pass found nothing and replaced a stored set that was not empty
C2_Witness ==
  /\ passes >= 2
  /\ superseded
  /\ diagnostics = <<>>
  /\ split(docText) # <<"">>

\* C3: a change event that leaves the text as the previous pass read it runs a
\* pass that yields the identical ordered issue list and diagnostics
C3_Idempotent ==
  [][(isHtml(fileName) /\ passes > 0 /\ ChangeDocument(docText, NoFault))
       => (issues' = issues /\ diagnostics' = diagnostics)]_vars

\* a pass ran again on unchanged text that has several issues
C3_Witness ==
  /\ repeated
  /\ passes >= 2
  /\ Len(issues) >= 2
  /\ issues = pass(docText).issues

\* the ten detector families of the specification, each by its runner
everyFamily(line, lineNumber, text) ==
  checkImages(line, lineNumber)
    \o checkFormElements(line, lineNumber)
    \o checkAriaLabelAndRole(line, lineNumber, text)
    \o checkTabIndex(line, lineNumber)
    \o checkKeyboardNavigation(line, lineNumber, text)
    \o checkFocusManagement(line, lineNumber)
    \o checkSemanticHtml(line, lineNumber, text)
    \o checkInputPurpose(line, lineNumber)
    \o checkLabelNameConsistency(line, lineNumber)
    \o checkColorContrastIssues(line, lineNumber)

\* C4: after a pass, every issue that any of the ten family runners yields for
\* any line of the document has its diagnostic in the stored set
C4_EveryFamilyContributes ==
  (isHtml(fileName) /\ passes > 0) =>
    LET lines == split(docText)
    IN \A i \in 0..(Len(lines) - 1) :
         LET found == everyFamily(lines[i + 1], i, docText)
         IN \A n \in 1..Len(found) :
              \E k \in 1..Len(diagnostics) :
                /\ diagnostics[k].range = found[n].range
                /\ diagnostics[k].message = found[n].issue

\* C5: a pass in which a detector raised on one line lets no exception escape
\* and still publishes the diagnostics of every other line
C5_FaultIsolated ==
  (isHtml(fileName) /\ lastFault # NoFault) =>
    /\ ~escaped
    /\ LET found == pass(docText).issues
       IN \A n \in 1..Len(found) :
            found[n].range.startLine \notin lastFault =>
              \E k \in 1..Len(diagnostics) :
                /\ diagnostics[k].range = found[n].range
                /\ diagnostics[k].message = found[n].issue

\* C6: the classifier returns a level for every severity string: Error for
\* HIGH, Warning for MEDIUM, Information for LOW and for every other value;
\* the three levels are pairwise distinct, and equal inputs get equal levels
C6_ClassifierTotal ==
  levels # <<>> =>
  /\ Error # Warning /\ Warning # Information /\ Error # Information
  /\ Len(levels) = Len(severities)
  /\ \A k \in 1..Len(severities) :
       /\ severities[k] = "HIGH" => levels[k] = Error
       /\ severities[k] = "MEDIUM" => levels[k] = Warning
       /\ severities[k] = "LOW" => levels[k] = Information
       /\ severities[k] \notin {"HIGH", "MEDIUM", "LOW"} => levels[k] = Information
  /\ \A j, k \in 1..Len(severities) : severities[j] = severities[k] => levels[j] = levels[k]

\* the three defined severities and a value outside the enum were classified in one go
C6_Witness ==
  /\ levels # <<>>
  /\ Len(levels) = Len(severities)
  /\ {"HIGH", "MEDIUM", "LOW"} \subseteq {severities[k] : k \in 1..Len(severities)}
  /\ \E k \in 1..Len(severities) : severities[k] \notin {"HIGH", "MEDIUM", "LOW"}

(***************************************************************************)
(* Properties of the repair workflow, checked under SpecRepair.            *)
(***************************************************************************)
\* the lines of the document text
linesOf(text) == split(text)

\* C7: a line whose generation failed in the current function call (the
\* service raised, the response was missing, empty or blank, or there was no
\* client and no credential) gets no replacement in the edit the call builds,
\* fixSpecificImageTag builds no edit at all, and the line's text in the
\* document is what it was when the call or command started.
C7_FailureLeavesLine ==
  \A n \in failed :
    /\ \A k \in 1..Len(frame.edit) : frame.edit[k].range.startLine # n
    /\ (frame.call = "fixSpecificImageTag" => frame.edit = <<>>)
    /\ n < Len(linesOf(docText))
    /\ linesOf(docText)[n + 1] = linesOf(before)[n + 1]

\* C7 happens: a bulk fix in which one line's generation failed and another's
\* succeeded has applied its edit
C7_Witness ==
  /\ frame.call = "autoFixMissingAltTags"
  /\ frame.flow = "bulk"
  /\ failed # {}
  /\ applied
  /\ frame.edit # <<>>
  /\ docText # before

untouchable(line) == includes(line, "alt=") \/ ~includes(line, "<img")

\* C9: for a line that contains alt= or no <img, the single-image functions
\* and the single-image command return without calling generateAltText,
\* without a preview and without an edit; the whole-document functions never
\* call generateAltText for such a line and build no preview and no
\* replacement for it.
C9_UntouchableLinesSkipped ==
  /\ (frame.call \in {"getSpecificImagePreview", "fixSpecificImageTag"} /\ untouchable(frame.lineText)) =>
       (generated = {} /\ frame.pc = "idle" /\ frame.preview = <<>> /\ frame.edit = <<>>)
  /\ (frame.flow = "single" /\ untouchable(frame.lineText)) =>
       (generated = {} /\ frame.pc = "idle" /\ ~applied)
  /\ frame.call \in {"getMissingAltTagsPreview", "autoFixMissingAltTags"} =>
       \A n \in 0..(Len(frame.lines) - 1) :
         untouchable(frame.lines[n + 1]) =>
           /\ n \notin generated
           /\ \A k \in 1..Len(frame.previews) : frame.previews[k].lineNumber # n
           /\ \A k \in 1..Len(frame.edit) : frame.edit[k].range.startLine # n

\* C9 happens: a whole-document fix has finished on a document with a line
\* that has alt= next to a line it repaired
C9_Witness ==
  /\ frame.call = "autoFixMissingAltTags"
  /\ frame.pc = "idle"
  /\ frame.edit # <<>>
  /\ generated # {}
  /\ \E n \in 0..(Len(frame.lines) - 1) : includes(frame.lines[n + 1], "alt=")

\* the index of the first > at or after k that is outside the quoted
\* attribute values of the tag; q is the quote that is open, "" if none
RECURSIVE scanTag(_, _, _)
scanTag(s, k, q) ==
  IF k >= Len(s) THEN -1
  ELSE IF q # "" THEN scanTag(s, k + 1, IF charAt(s, k) = q THEN "" ELSE q)
  ELSE IF charAt(s, k) = ">" THEN k
  ELSE scanTag(s, k + 1, IF charAt(s, k) \in Quotes THEN charAt(s, k) ELSE "")

\* the index of the closing > of the first img element of the line, -1 if none
closingGt(line) ==
  IF indexOf(line, "<img", 0) = -1 THEN -1 ELSE scanTag(line, indexOf(line, "<img", 0) + 4, "")

\* the alt texts generation can succeed with
AltTexts == {altFixResult(r).altText : r \in {x \in Responses : altFixResult(x).success}}

\* C10: every replacement of a repair edit covers exactly its line, from
\* column 0 to the line's length, and its new text is the line with
\* alt="<generated text>" (after one space) inserted immediately before the
\* closing > of the img element; fixSpecificImageTag builds at most one
\* replacement; once the edit is applied every line without a replacement is
\* as it was.
C10_InsertBeforeClosing ==
  /\ \A k \in 1..Len(frame.edit) :
       LET n == frame.edit[k].range.startLine
           line == IF frame.call = "fixSpecificImageTag" THEN frame.lineText ELSE frame.lines[n + 1]
       IN /\ frame.edit[k].range = Range(n, 0, n, Len(line))
          /\ closingGt(line) # -1
          /\ \E altText \in AltTexts :
               frame.edit[k].newText =
                 substring(line, 0, closingGt(line)) \o " alt=\"" \o altText \o "\""
                   \o substring(line, closingGt(line), Len(line))
  /\ (frame.call = "fixSpecificImageTag" => Len(frame.edit) <= 1)
  /\ applied =>
       /\ Len(linesOf(docText)) = Len(linesOf(before))
       /\ \A n \in 0..(Len(linesOf(before)) - 1) :
            (\A k \in 1..Len(frame.edit) : frame.edit[k].range.startLine # n) =>
              linesOf(docText)[n + 1] = linesOf(before)[n + 1]

(***************************************************************************)
(* Properties of the detector families, checked under SpecDetect on the    *)
(* issues the latest pass collected.                                       *)
(***************************************************************************)
\* an analysis pass has run on the document as it is
analysed == isHtml(fileName) /\ passes > 0 /\ ~escaped

\* indices of the document's lines
LineNumbers == 0..(Len(linesOf(docText)) - 1)

\* the line of the document at index n
lineAt(n) == linesOf(docText)[n + 1]

\* the issues family fam contributed for line n, in the order it returned them
familyIssues(fam, n) == SelectSeq(issues, LAMBDA i : i.family = fam /\ i.range.startLine = n)

\* issues.filter(issue => issue.severity === sev)
withSeverity(found, sev) == SelectSeq(found, LAMBDA i : i.severity = sev)

\* the line has an img tag and no alt attribute
imgWithoutAlt(line) == includes(line, "<img") /\ ~includes(line, "alt=")

\* C11: for every line with an img element and no alt attribute the image
\* family yields exactly one issue; it is HIGH and its text says that the alt
\* attribute is missing.
C11_MissingAltIsOneHigh ==
  analysed =>
    \A n \in LineNumbers :
      imgWithoutAlt(lineAt(n)) =>
        /\ Len(familyIssues(FamImage, n)) = 1
        /\ familyIssues(FamImage, n)[1].severity = "HIGH"
        /\ includes(familyIssues(FamImage, n)[1].issue, "Missing alt attribute")

\* a pass has run on a document with an image without alt, written with
\* leading white space and a single-quoted src
C11_Witness ==
  /\ analysed
  /\ \E n \in LineNumbers :
       /\ imgWithoutAlt(lineAt(n))
       /\ includes(lineAt(n), "src='")
       /\ lineAt(n) # trim(lineAt(n))
       /\ Len(familyIssues(FamImage, n)) = 1

\* the line has an alt attribute with the empty value
emptyAlt(line) == includes(line, "alt=\"\"") \/ includes(line, "alt=''")

\* C12: for every line with alt="" or alt='' the image family yields exactly
\* one issue; it is MEDIUM and comes from the empty-alt detector (the second
\* of the family's checks), none from the missing-alt detector (the first).
C12_EmptyAltIsOneMedium ==
  analysed =>
    \A n \in LineNumbers :
      emptyAlt(lineAt(n)) =>
        /\ Len(familyIssues(FamImage, n)) = 1
        /\ familyIssues(FamImage, n)[1].severity = "MEDIUM"
        /\ familyIssues(FamImage, n)[1].check = 2
        /\ includes(familyIssues(FamImage, n)[1].issue, "Empty alt")
        /\ withSeverity(familyIssues(FamImage, n), "HIGH") = <<>>

\* a pass has run on a document with both forms of the empty alt
C12_Witness ==
  /\ analysed
  /\ \E n, m \in LineNumbers :
       /\ includes(lineAt(n), "alt=\"\"")
       /\ includes(lineAt(m), "alt=''")
       /\ familyIssues(FamImage, n) # <<>>
       /\ familyIssues(FamImage, m) # <<>>

\* the line is one button element, <button attributes>content</button>
oneButton(line) ==
  /\ Len(line) >= 17
  /\ substring(line, 0, 7) = "<button"
  /\ endsWith(line, "</button>")
  /\ indexOf(line, ">", 0) <= Len(line) - 10

\* the attributes of the button element and what is between its tags
buttonAttributes(line) == substring(line, 7, indexOf(line, ">", 0))

buttonContent(line) == substring(line, indexOf(line, ">", 0) + 1, Len(line) - 9)

\* the button shows text
hasVisibleText(line) == trim(buttonContent(line)) # ""

\* the button has none of aria-label, aria-labelledby and title
unnamed(line) ==
  /\ ~includes(buttonAttributes(line), "aria-label")
  /\ ~includes(buttonAttributes(line), "aria-labelledby")
  /\ ~includes(buttonAttributes(line), "title=")

\* C13: for a button on one line without aria-label, aria-labelledby and
\* title, the ARIA family yields no issue when the button has visible text,
\* and exactly one issue, HIGH and citing the missing accessible name, when
\* its content is empty.
C13_ButtonAccessibleName ==
  analysed =>
    \A n \in LineNumbers :
      (oneButton(lineAt(n)) /\ unnamed(lineAt(n))) =>
        IF hasVisibleText(lineAt(n))
        THEN familyIssues(FamAria, n) = <<>>
        ELSE /\ Len(familyIssues(FamAria, n)) = 1
             /\ familyIssues(FamAria, n)[1].severity = "HIGH"
             /\ includes(familyIssues(FamAria, n)[1].issue, "missing accessible name")

\* C14: for a button with visible text and aria-label="" the ARIA family
\* yields exactly one issue; it is HIGH and cites the empty aria-label.
C14_EmptyAriaLabelIsOneHigh ==
  analysed =>
    \A n \in LineNumbers :
      (oneButton(lineAt(n)) /\ hasVisibleText(lineAt(n))
         /\ includes(buttonAttributes(lineAt(n)), "aria-label=\"\"")) =>
        /\ Len(familyIssues(FamAria, n)) = 1
        /\ familyIssues(FamAria, n)[1].severity = "HIGH"
        /\ includes(toLowerCase(familyIssues(FamAria, n)[1].issue), "empty")
        /\ includes(familyIssues(FamAria, n)[1].issue, "aria-label")

\* aria-label values that name the kind of element and nothing else
GenericLabels == {"button"}

\* the values the button's aria-label attribute is written with
ariaLabels(line) ==
  {quotedValue(buttonAttributes(line), "aria-label=", i) : i \in quotedHits(buttonAttributes(line), "aria-label=")}

\* C15: for a button with visible text the ARIA family yields exactly one
\* issue, MEDIUM and citing the generic aria-label text, when the aria-label
\* is a generic word, and no issue when the aria-label is descriptive.
C15_GenericAriaLabelIsOneMedium ==
  analysed =>
    \A n \in LineNumbers :
      (oneButton(lineAt(n)) /\ hasVisibleText(lineAt(n)) /\ ariaLabels(lineAt(n)) # {}) =>
        IF ariaLabels(lineAt(n)) \subseteq GenericLabels
        THEN /\ Len(familyIssues(FamAria, n)) = 1
             /\ familyIssues(FamAria, n)[1].severity = "MEDIUM"
             /\ includes(familyIssues(FamAria, n)[1].issue, "generic")
        ELSE (\A v \in ariaLabels(lineAt(n)) : v \notin GenericLabels /\ trim(v) # "") =>
               familyIssues(FamAria, n) = <<>>

\* the roles of custom interactive elements
InteractiveRoles == {"button", "link", "menuitem", "tab", "option", "checkbox"}

\* the line has an interactive role
hasInteractiveRole(line) == \E r \in InteractiveRoles : includes(line, "role=\"" \o r \o "\"")

\* the line has a tabindex whose value is a positive number
hasPositiveTabIndex(line) ==
  \E i \in quotedHits(line, "tabindex=") : positiveValue(quotedValue(line, "tabindex=", i))

\* the line has a tabindex whose value is a negative number
hasNegativeTabIndex(line) ==
  \E i \in quotedHits(line, "tabindex=") : negativeValue(quotedValue(line, "tabindex=", i))

\* C16: for a div or span with role="button", onclick and a positive tabindex
\* the tab-index family yields at least two issues, of which filtering by
\* severity finds at least one HIGH and at least one MEDIUM.
C16_RoleWithPositiveTabIndex ==
  analysed =>
    \A n \in LineNumbers :
      (includesAny(lineAt(n), {"<div", "<span"}) /\ includes(lineAt(n), "role=\"button\"")
         /\ includes(lineAt(n), "onclick=") /\ hasPositiveTabIndex(lineAt(n))) =>
        /\ Len(familyIssues(FamTabIndex, n)) >= 2
        /\ Len(withSeverity(familyIssues(FamTabIndex, n), "HIGH")) >= 1
        /\ Len(withSeverity(familyIssues(FamTabIndex, n), "MEDIUM")) >= 1

C18_ButtonWithTabIndex ==
  analysed =>
    \A n \in LineNumbers :
      (oneButton(lineAt(n)) /\ hasVisibleText(lineAt(n))
         /\ substring(buttonAttributes(lineAt(n)), 0, 10) = " tabindex="
         /\ indexOf(buttonAttributes(lineAt(n)), " ", 1) = -1
         /\ (hasNegativeTabIndex(lineAt(n)) \/ hasPositiveTabIndex(lineAt(n)))) =>
        /\ Len(familyIssues(FamTabIndex, n)) = 1
        /\ IF hasNegativeTabIndex(lineAt(n))
           THEN /\ familyIssues(FamTabIndex, n)[1].severity = "HIGH"
                /\ includes(familyIssues(FamTabIndex, n)[1].issue, "Negative tabindex")
           ELSE /\ familyIssues(FamTabIndex, n)[1].severity = "MEDIUM"
                /\ includes(familyIssues(FamTabIndex, n)[1].issue, "Positive tabindex")

\* the attributes whose value is a list of ids of other elements
ReferenceAttributes == {"aria-labelledby", "aria-describedby"}

\* the ids a space-separated id list names
idRefs(v) ==
  {w \in {substring(v, a, b) : a \in 0..Len(v), b \in 0..Len(v)} :
     /\ w # ""
     /\ ~includes(w, " ")
     /\ \E a \in 0..(Len(v) - Len(w)) :
          /\ substring(v, a, a + Len(w)) = w
          /\ (a = 0 \/ charAt(v, a - 1) = " ")
          /\ (a + Len(w) = Len(v) \/ charAt(v, a + Len(w)) = " ")}

\* the ids the line's attribute attr references
referenced(line, attr) ==
  UNION {idRefs(quotedValue(line, attr \o "=", i)) : i \in quotedHits(line, attr \o "=")}

\* some element of the document has the id attribute id
idExists(text, id) == includes(text, "id=\"" \o id \o "\"") \/ includes(text, "id='" \o id \o "'")

\* the issues of the ARIA family for line n that report a reference of attr
\* to an element that does not exist
referenceIssues(n, attr) ==
  SelectSeq(familyIssues(FamAria, n), LAMBDA i : includes(i.issue, attr \o " references non-existent"))

\* C19: for every line with aria-labelledby or aria-describedby, the ARIA
\* family reports a HIGH issue for the attribute when one of the ids it
\* references is the id of no element of the document, and no such issue when
\* every id it references is the id of an element of the document.
C19_ReferencesResolved ==
  analysed =>
    \A n \in LineNumbers : \A attr \in ReferenceAttributes :
      referenced(lineAt(n), attr) # {} =>
        IF \A id \in referenced(lineAt(n), attr) : idExists(docText, id)
        THEN referenceIssues(n, attr) = <<>>
        ELSE /\ referenceIssues(n, attr) # <<>>
             /\ \A k \in 1..Len(referenceIssues(n, attr)) : referenceIssues(n, attr)[k].severity = "HIGH"

\* start indices of the h1 opening tags of s
h1Tags(s) ==
  {i \in 0..(Len(s) - 4) :
     /\ substring(s, i, i + 3) = "<h1"
     /\ charAt(s, i + 3) \in {">", " "}
     /\ indexOf(s, ">", i + 3) # -1}

\* the issues of family fam for line n that report several h1 headings
multipleH1Issues(fam, n) ==
  SelectSeq(familyIssues(fam, n), LAMBDA i : includes(i.issue, "Multiple h1"))

\* C20: when the document has more than one h1 opening tag, every line with
\* an h1 opening tag gets a HIGH 'multiple h1' issue from the semantic family;
\* when the document has exactly one, no line gets a 'multiple h1' issue.
C20_MultipleH1 ==
  analysed =>
    /\ Cardinality(h1Tags(docText)) > 1 =>
         \A n \in LineNumbers :
           h1Tags(lineAt(n)) # {} =>
             /\ multipleH1Issues(FamSemantic, n) # <<>>
             /\ multipleH1Issues(FamSemantic, n)[1].severity = "HIGH"
    /\ Cardinality(h1Tags(docText)) = 1 =>
         \A n \in LineNumbers : \A fam \in {FamOther, FamSemantic} : multipleH1Issues(fam, n) = <<>>

\* the levels 2 to 6 of the heading opening tags of s
subheadingLevels(s) ==
  {d \in {"2", "3", "4", "5", "6"} :
     \E i \in 0..(Len(s) - 4) :
       /\ substring(s, i, i + 3) = "<h" \o d
       /\ charAt(s, i + 3) \in {">", " "}
       /\ indexOf(s, ">", i + 3) # -1}

\* the issues of the semantic family for line n that raise the heading hierarchy
hierarchyIssues(n) ==
  SelectSeq(familyIssues(FamSemantic, n), LAMBDA i : includes(i.issue, "ensure proper heading hierarchy"))

\* C21: every line with a heading opening tag of level 2 to 6 gets a MEDIUM
\* hierarchy issue that names the level, whatever the other lines of the
\* document are; a line whose headings are all of level 1 gets no hierarchy
\* issue.
C21_HeadingPerLine ==
  analysed =>
    \A n \in LineNumbers :
      /\ \A d \in subheadingLevels(lineAt(n)) :
           \E k \in 1..Len(hierarchyIssues(n)) :
             /\ hierarchyIssues(n)[k].severity = "MEDIUM"
             /\ includes(hierarchyIssues(n)[k].issue, "Heading h" \o d \o " detected")
      /\ (h1Tags(lineAt(n)) # {} /\ subheadingLevels(lineAt(n)) = {}) => hierarchyIssues(n) = <<>>

\* the line is one link element
oneLink(line) ==
  /\ Len(line) >= 7
  /\ substring(line, 0, 2) = "<a"
  /\ charAt(line, 2) \in {" ", ">"}
  /\ endsWith(line, "</a>")
  /\ indexOf(line, ">", 0) <= Len(line) - 5

linkContent(line) == substring(line, indexOf(line, ">", 0) + 1, Len(line) - 4)

\* the issues of the semantic family for line n that are HIGH and cite text
missingText(n, text) ==
  SelectSeq(withSeverity(familyIssues(FamSemantic, n), "HIGH"), LAMBDA i : includes(i.issue, text))

\* C22: a button, or a link, with empty content and neither aria-label nor
\* aria-labelledby on its line gets a HIGH issue from the semantic family that
\* cites the missing accessible text.
C22_EmptyButtonOrLink ==
  analysed =>
    \A n \in LineNumbers :
      /\ (oneButton(lineAt(n)) /\ buttonContent(lineAt(n)) = "" /\ ~includes(lineAt(n), "aria-label"))
           => missingText(n, "Button missing accessible text") # <<>>
      /\ (oneLink(lineAt(n)) /\ linkContent(lineAt(n)) = "" /\ ~includes(lineAt(n), "aria-label"))
           => missingText(n, "Link missing accessible text") # <<>>

\* the line holds a :focus rule that removes the outline
removesFocusOutline(line) ==
  /\ includes(line, ":focus")
  /\ includes(line, "outline: none") \/ includes(line, "outline: 0")

\* C23: after a pass, every line with a :focus rule that sets outline: none
\* or outline: 0 has at least one published diagnostic of severity Error.
C23_FocusOutlineIsHigh ==
  analysed =>
    \A n \in LineNumbers :
      removesFocusOutline(lineAt(n)) =>
        \E k \in 1..Len(diagnostics) :
          /\ diagnostics[k].range.startLine = n
          /\ diagnostics[k].severity = Error

everyRunner(n) ==
  everyFamily(lineAt(n), n, docText) \o checkOtherAccessibility(lineAt(n), n, docText)

\* found is a list of issues for line n of the document
issuesFor(found, n) ==
  \A k \in 1..Len(found) :
    /\ found[k].severity \in {"HIGH", "MEDIUM", "LOW"}
    /\ found[k].line = n + 1
    /\ found[k].issue # ""
    /\ found[k].range = Range(n, 0, n, Len(lineAt(n)))

\* the line is cut off inside a tag or inside a quoted attribute value
broken(line) ==
  /\ includes(line, "<")
  /\ \/ ~includes(line, ">")
     \/ includes(line, "='") /\ indexOf(line, "'", indexOf(line, "='", 0) + 2) = -1

\* C25: every family runner returns a result for every line, a list of
\* issues for that line, and the pass that calls them does not fail; for an
\* empty or whitespace-only line every runner returns no issue.
C25_Total ==
  analysed =>
    /\ lastFault = NoFault
    /\ \A n \in LineNumbers :
         LET found == everyRunner(n)
         IN /\ issuesFor(found, n)
            /\ trim(lineAt(n)) = "" => (found = <<>> /\ \A k \in 1..Len(issues) : issues[k].range.startLine # n)

\* a pass has analysed a document with a blank line and a broken line
C25_Witness ==
  /\ analysed
  /\ \E n \in LineNumbers : trim(lineAt(n)) = ""
  /\ \E n \in LineNumbers : broken(lineAt(n)) /\ everyRunner(n) # <<>>

(***************************************************************************)
(* Properties of the confirmation of the repair commands, checked under    *)
(* SpecRepair.                                                             *)
(***************************************************************************)
\* the alt texts the confirmation dialog of the current command showed, each
\* with the index of its line
shown ==
  IF frame.flow = "single"
  THEN {[lineNumber |-> frame.lineNumber, altText |-> frame.preview[k].altText] : k \in 1..Len(frame.preview)}
  ELSE {[lineNumber |-> frame.previews[k].lineNumber, altText |-> frame.previews[k].altText] :
          k \in 1..Len(frame.previews)}

\* C26: when a command has applied its edit, the user had chosen 'Yes, Apply
\* Fix' (the command is in its fix function), and every replacement of the
\* edit writes the alt text the confirmation dialog showed for that line.
C26_AppliedIsPreviewed ==
  (applied /\ frame.flow \in {"single", "bulk"}) =>
    /\ frame.call \in {"fixSpecificImageTag", "autoFixMissingAltTags"}
    /\ \A k \in 1..Len(frame.edit) :
         \E p \in shown :
           /\ p.lineNumber = frame.edit[k].range.startLine
           /\ includes(frame.edit[k].newText, " alt=\"" \o p.altText \o "\"")

(***************************************************************************)
(* Properties of the single-image command under edits of the user, checked *)
(* under SpecRepairEdit.                                                   *)
(***************************************************************************)
\* C27: at the step at which the single-image command applies its edit, the
\* target line becomes the line as the document has it at that step with the
\* generated alt attribute inserted: what the user changed on the line while
\* the command was pending is kept.
C27_BuiltFromCurrentLine ==
  [][(frame.flow = "single" /\ ~applied /\ applied' /\ frame.lineNumber < Len(split(docText))) =>
       insertAlt(split(docText)[frame.lineNumber + 1], lastResult'.altText)
         = <<split(docText')[frame.lineNumber + 1]>>]_vars

(***************************************************************************)
(* Properties of the generation client, checked under SpecRepair.          *)
(***************************************************************************)
\* this step begins a generateAltText call from a function entry
beginsGeneration ==
  /\ generated' # {}
  /\ apiKey' = apiKey
  /\ \/ frame.pc = "idle"
     \/ frame.pc = "confirm" /\ frame'.call # frame.call

\* C28: the client, once created, stays; it is created only from a
\* credential that is set; with a client every generateAltText call goes on
\* to the service whatever the setting holds then; without a client and with
\* an empty setting every call returns 'OpenAI not initialized' and creates
\* no client.
C28_ClientCreatedOnce ==
  [][/\ openai => openai'
     /\ (~openai /\ openai') => apiKey # ""
     /\ (openai /\ beginsGeneration) =>
          (frame'.pc = "generating" /\ failed' = {} /\ lastCause' = lastCause)
     /\ (~openai /\ apiKey = "" /\ beginsGeneration) =>
          (~openai' /\ lastCause' = "noCredential" /\ lastResult' = notInitialized /\ failed' = generated')]_vars

\* with a client, a call that began when the setting was empty has succeeded
C28_Witness ==
  /\ openai
  /\ lastCause = "settledWithoutCredential"
  /\ lastResult.success
  /\ apiKey = ""

(***************************************************************************)
(* The fix and the detector, checked under SpecRepair.                     *)
(***************************************************************************)
\* C29: every replacement an edit of fixSpecificImageTag holds writes a line
\* that contains alt=, on which the missing-alt detector of the image family
\* does not fire and for which a second fixSpecificImageTag returns null
\* before it calls generateAltText.
C29_FixedLineIsSettled ==
  (frame.call = "fixSpecificImageTag") =>
    \A k \in 1..Len(frame.edit) :
      LET newLine == frame.edit[k].newText
      IN /\ includes(newLine, "alt=")
         /\ checkImageAltAttributes(newLine, frame.lineNumber) = null
         /\ ~fixable(trim(newLine))
         /\ ~reachesGenerateAltText(newLine)

\* fixSpecificImageTag has produced an edit and the command has applied it:
\* the document holds the replacement line
C29_Witness ==
  /\ frame.call = "fixSpecificImageTag"
  /\ frame.edit # <<>>
  /\ applied
  /\ split(docText)[frame.lineNumber + 1] = frame.edit[1].newText

(***************************************************************************)
(* The heading-structure detector of OtherAccessibilityChecker, checked    *)
(* under SpecDetect.                                                      *)
(***************************************************************************)
\* C30: checkHeadingStructure returns no issue for any line of the document
\* it is given, and no pass publishes its MEDIUM 'Multiple h1 tags found'
\* issue.
C30_HeadingStructureSilent ==
  analysed =>
    /\ \A n \in LineNumbers : checkHeadingStructure(lineAt(n), n, docText) = null
    /\ \A k \in 1..Len(issues) :
         ~(issues[k].family = FamOther /\ includes(issues[k].issue, "Multiple h1 tags found"))
    /\ \A k \in 1..Len(diagnostics) :
         ~(diagnostics[k].severity = Warning /\ includes(diagnostics[k].message, "Multiple h1 tags found"))

\* a pass has analysed a document with two lines that hold <h1>
C30_Witness ==
  /\ analysed
  /\ Cardinality({n \in LineNumbers : includes(lineAt(n), "<h1>")}) >= 2

====
